---- MODULE Spec2Model ----
(***************************************************************************)
(* A model of the indexing engine of smart-coding-mcp:                     *)
(*   - the lexical chunker smartChunk (lib/utils.js) and the AST chunker   *)
(*     ASTChunker (lib/ast-chunker.js), as operators over a text made of   *)
(*     symbols;                                                            *)
(*   - the store SQLiteCache (lib/sqlite-cache.js);                        *)
(*   - the pipeline CodebaseIndexer (features/index-codebase.js): indexAll,*)
(*     indexFile, the file watcher, the worker orchestrator.               *)
(* Text: a sequence of symbols.  "W" is a word of ten characters, "F" a    *)
(* fragment of ten characters that the langPattern of the file's language  *)
(* matches at the start of a line ("function f"), " " one blank and "\n"   *)
(* the line separator.                                                     *)
(***************************************************************************)
EXTENDS Integers, Sequences, FiniteSets, TLC

VARIABLES
  ckPc,        \* the chunker run: "input", then "smart", "ast", "threw",
               \* "wrapper" or "indexed"
  ckMode,      \* config.chunkingMode
  ckContent,   \* the text given to the chunker
  ckAst,       \* whether getChunker(config) returned an ASTChunker
  ckEnv,       \* what the parser did in the call of ASTChunker.chunk
  ckSpans      \* the spans the chunker returned

chunkVars == <<ckPc, ckMode, ckContent, ckAst, ckEnv, ckSpans>>

VARIABLES
  disk,             \* the workspace: per file its state on disk and its content
  edits,            \* how many times the workspace was edited
  embeddings,       \* SQLiteCache: the rows of table embeddings, in insertion order
  fileHashes,       \* SQLiteCache: table file_hashes, file -> hash
  cacheFileHashes,  \* the JavaScript property cache.fileHashes
  isIndexing,       \* CodebaseIndexer.isIndexing
  indexingStatus,   \* CodebaseIndexer.indexingStatus
  watcherOn,        \* whether setupFileWatcher has installed the watcher
  batchSize,        \* config.batchSize
  pc,               \* per indexAll caller: where its call stands
  run,              \* per indexAll caller: the locals of its call
  outcome,          \* per indexAll caller: how its last call ended
  calls,            \* how many indexAll calls were made
  failures,         \* how many embedder calls have thrown
  events,           \* the watcher's events not yet handled
  hs                \* per watch handler: the state of its indexFile call

envVars == <<disk, edits, batchSize, failures>>

storeVars == <<embeddings, fileHashes, cacheFileHashes>>

indexerVars == <<isIndexing, indexingStatus, watcherOn, pc, run, outcome, calls>>

watchVars == <<events, hs>>

idxVars == <<envVars, storeVars, indexerVars, watchVars>>

VARIABLES
  wkPc,        \* processChunksWithWorkers: "input", "await", "fallback" or "returned"
  wkWorkers,   \* this.workers.length
  wkChunks,    \* allChunks, the chunks given to the call
  wkSlices,    \* workerPromises: per slice its chunks and how its promise resolved
  wkFailed,    \* failedChunks, and how far the fallback has got in it
  wkResults    \* results

wkVars == <<wkPc, wkWorkers, wkChunks, wkSlices, wkFailed, wkResults>>

VARIABLES
  stPc,        \* the store call: "idle", then "returned" or "threw"
  stRows,      \* the rows of table embeddings
  stArg,       \* the argument of the last call
  stPrev,      \* the rows of table embeddings before the last call
  stCalls      \* the calls made

stVars == <<stPc, stRows, stArg, stPrev, stCalls>>

VARIABLES
  mgPc,        \* the server process: "down", or "up" once cache.load() returned
  mgJson,      \* embeddings.json and file-hashes.json: "present", "backup", "absent"
  mgLegacy,    \* the number of chunks in embeddings.json
  mgRows,      \* the rows of table embeddings: "legacy" or "new" each
  mgHashes,    \* whether table file_hashes holds the legacy hashes
  mgImports,   \* how many times the legacy chunks were inserted
  mgLoads      \* the calls of cache.load()

mgVars == <<mgPc, mgJson, mgLegacy, mgRows, mgHashes, mgImports, mgLoads>>

VARIABLES
  sdEnableCache, \* config.enableCache
  sdInit,      \* ensureInitialized: "start", "loading" (cache.load awaited), "ready"
  sdWatcher,   \* whether indexer.watcher is set
  sdWal,       \* the writes of the store since the last WAL checkpoint
  sdHandler,   \* the shutdown: "none", "closing", "saved", "exited"
  sdSignal,    \* the signal whose handler called process.exit
  sdSaves      \* the calls of cache.save() made by a shutdown handler

sdVars == <<sdEnableCache, sdInit, sdWatcher, sdWal, sdHandler, sdSignal, sdSaves>>

VARIABLES
  pgServer,    \* this.server of the first indexer: "delivers" or "throws"
  pgFiles,     \* the number of files discoverFiles returns
  pgChanged,   \* the files (by position) that changed and whose chunks are embedded
  pgBatch,     \* adaptiveBatchSize
  pgWith,      \* the run of the indexer that has a server
  pgWithout    \* the run of the indexer whose server is null, on the same inputs

pgVars == <<pgServer, pgFiles, pgChanged, pgBatch, pgWith, pgWithout>>

VARIABLES
  csPc,        \* "input", then "scored"
  csA,         \* the query vector
  csB,         \* the vector of a stored chunk
  csScore      \* what cosineSimilarity returned

csVars == <<csPc, csA, csB, csScore>>

\* ASTChunker.getLanguageForFile: the position of one call, its argument
\* (a file name, as its characters) and what it returned.
VARIABLES
  lgPc,
  lgFile,
  lgResult

lgVars == <<lgPc, lgFile, lgResult>>

\* One worker of the pool over the calls of processChunksWithWorkers: the
\* clock, the batches posted to the worker with their promise, timer and
\* listeners, the messages the worker has sent and whether it has crashed.
VARIABLES
  btNow,
  btBatches,
  btSent,
  btCrashed

btVars == <<btNow, btBatches, btSent, btCrashed>>

\* The worker pool of the indexer over its runs: os.cpus().length, the configuration, the position of a run, this.workers.length, whether every worker of the last initializeWorkers started, and the runs so far.
VARIABLES
  plCpus,
  plConfig,
  plPc,
  plWorkers,
  plStarted,
  plRuns

plVars == <<plCpus, plConfig, plPc, plWorkers, plStarted, plRuns>>

\* The lazy initialization of index.js: the two globals, the position of the initialization body, how often it was started, and the position of each caller of ensureInitialized.
VARIABLES
  isInitialized,
  initializationPromise,
  inBody,
  inStarted,
  inPc

inVars == <<isInitialized, initializationPromise, inBody, inStarted, inPc>>

libVars == <<stVars, mgVars, sdVars, pgVars, csVars, lgVars, btVars, plVars, inVars>>

\* The variables of the other library operations, for each of them.
exceptStore == <<mgVars, sdVars, pgVars, csVars, lgVars, btVars, plVars, inVars>>

exceptMigrate == <<stVars, sdVars, pgVars, csVars, lgVars, btVars, plVars, inVars>>

exceptShutdown == <<stVars, mgVars, pgVars, csVars, lgVars, btVars, plVars, inVars>>

exceptProgress == <<stVars, mgVars, sdVars, csVars, lgVars, btVars, plVars, inVars>>

exceptCosine == <<stVars, mgVars, sdVars, pgVars, lgVars, btVars, plVars, inVars>>

exceptLanguage == <<stVars, mgVars, sdVars, pgVars, csVars, btVars, plVars, inVars>>

exceptBatches == <<stVars, mgVars, sdVars, pgVars, csVars, lgVars, plVars, inVars>>

exceptPool == <<stVars, mgVars, sdVars, pgVars, csVars, lgVars, btVars, inVars>>

exceptLazy == <<stVars, mgVars, sdVars, pgVars, csVars, lgVars, btVars, plVars>>

vars == <<chunkVars, idxVars, wkVars, libVars>>

\* ------------------------------------------------------------------ text

Symbols == {"W", "F", " ", "\n"}

\* String.prototype.length of one symbol.
CharLen(s) == IF s \in {"W", "F"} THEN 10 ELSE 1

\* The characters String.prototype.trim removes.
IsWhitespace(s) == s \in {" ", "\n"}

RECURSIVE TextLength(_)
TextLength(text) ==
  IF text = <<>> THEN 0 ELSE CharLen(Head(text)) + TextLength(Tail(text))

RECURSIVE TrimStart(_)
TrimStart(text) ==
  IF text # <<>> /\ IsWhitespace(Head(text)) THEN TrimStart(Tail(text)) ELSE text

RECURSIVE TrimEnd(_)
TrimEnd(text) ==
  IF text # <<>> /\ IsWhitespace(text[Len(text)])
    THEN TrimEnd(SubSeq(text, 1, Len(text) - 1))
    ELSE text

Trim(text) == TrimEnd(TrimStart(text))

\* content.split("\n"): the lines of a text; the empty text has one empty line.
RECURSIVE SplitFrom(_, _, _)
SplitFrom(text, cur, acc) ==
  IF text = <<>> THEN Append(acc, cur)
  ELSE IF Head(text) = "\n" THEN SplitFrom(Tail(text), <<>>, Append(acc, cur))
  ELSE SplitFrom(Tail(text), Append(cur, Head(text)), acc)

Split(text) == SplitFrom(text, <<>>, <<>>)

\* lines.join("\n")
RECURSIVE Join(_)
Join(lines) ==
  IF lines = <<>> THEN <<>>
  ELSE IF Len(lines) = 1 THEN lines[1]
  ELSE lines[1] \o <<"\n">> \o Join(Tail(lines))

\* lines.slice(from, to) of JavaScript: 0-based, `to` exclusive, both clamped.
Slice(lines, from, to) ==
  LET lo == IF from < 0 THEN 0 ELSE from
      hi == IF to > Len(lines) THEN Len(lines) ELSE to
  IN  IF lo >= hi THEN <<>> ELSE SubSeq(lines, lo + 1, hi)

\* ------------------------------------------------------------- tokenizer
\* lib/tokenizer.js is not among the sources: the estimate of a line and the
\* two budgets of getChunkingParams are modelled from the specification
\* ("estimates token counts per line", "target-token budget", "overlap-token
\* budget").

TokensOf(s) == IF s = "W" THEN 3 ELSE IF s = "F" THEN 2 ELSE 0

RECURSIVE estimateTokens(_)
estimateTokens(line) ==
  IF line = <<>> THEN 0 ELSE TokensOf(Head(line)) + estimateTokens(Tail(line))

targetTokens == 8

overlapTokens == 4

\* ------------------------------------------------------------ smartChunk

\* langPattern.test(line.trim()): every pattern is anchored at the start.
langPatternTest(line) == Trim(line) # <<>> /\ Head(Trim(line)) = "F"

\* The overlap loop: the last lines of the chunk that fit in overlapTokens.
RECURSIVE OverlapLoop(_, _, _, _)
OverlapLoop(currentChunk, j, overlapLines, overlapTokensCount) ==
  IF j < 1 \/ ~(overlapTokensCount < overlapTokens) THEN overlapLines
  ELSE LET lineT == estimateTokens(currentChunk[j])
       IN  IF overlapTokensCount + lineT <= overlapTokens
             THEN OverlapLoop(currentChunk, j - 1,
                              <<currentChunk[j]>> \o overlapLines,
                              overlapTokensCount + lineT)
             ELSE overlapLines

OverlapOf(currentChunk) == OverlapLoop(currentChunk, Len(currentChunk), <<>>, 0)

RECURSIVE SumTokens(_)
SumTokens(lines) ==
  IF lines = <<>> THEN 0 ELSE estimateTokens(Head(lines)) + SumTokens(Tail(lines))

\* chunkText.trim().length > 20
MinChunkChars == 20

KeepChunk(chunkText) == TextLength(Trim(chunkText)) > MinChunkChars

\* chunkStartLine = i - overlapLines.length
NextChunkStart(i, overlapLines) == i - Len(overlapLines)

\* wouldExceedLimit || (isGoodSplitPoint && currentTokenCount > targetTokens * 0.6)
ShouldSplit(line, currentChunk, currentTokenCount) ==
  \/ currentTokenCount + estimateTokens(line) > targetTokens
  \/ /\ langPatternTest(line)
     /\ Len(currentChunk) > 3
     /\ 10 * currentTokenCount > 6 * targetTokens

PushIfKept(chunks, currentChunk, startLine, endLine, tokenCount) ==
  IF KeepChunk(Join(currentChunk))
    THEN Append(chunks, [text |-> Join(currentChunk), startLine |-> startLine,
                         endLine |-> endLine, tokenCount |-> tokenCount])
    ELSE chunks

\* The for loop of smartChunk; i is the 0-based index of JavaScript.
RECURSIVE SmartChunkLoop(_, _, _, _, _, _)
SmartChunkLoop(lines, i, currentChunk, chunkStartLine, currentTokenCount, chunks) ==
  IF i >= Len(lines)
    THEN IF Len(currentChunk) > 0
           THEN PushIfKept(chunks, currentChunk, chunkStartLine + 1, Len(lines),
                           currentTokenCount)
           ELSE chunks
    ELSE LET line == lines[i + 1]
             lineTokens == estimateTokens(line)
         IN  IF ShouldSplit(line, currentChunk, currentTokenCount) /\ Len(currentChunk) > 0
               THEN LET overlapLines == OverlapOf(currentChunk)
                    IN  SmartChunkLoop(lines, i + 1, Append(overlapLines, line),
                          NextChunkStart(i, overlapLines),
                          SumTokens(overlapLines) + lineTokens,
                          PushIfKept(chunks, currentChunk, chunkStartLine + 1, i,
                                     currentTokenCount))
               ELSE SmartChunkLoop(lines, i + 1, Append(currentChunk, line),
                          chunkStartLine, currentTokenCount + lineTokens, chunks)

smartChunk(content) == SmartChunkLoop(Split(content), 0, <<>>, 0, 0, <<>>)

\* ------------------------------------------------------------ ASTChunker

\* config.chunkSize: lines per chunk (25 by default), scaled to the texts here.
chunkSize == 2

\* A syntax tree as ASTChunker.walkTree visits it: the nodes in pre-order, each
\* with whether SEMANTIC_NODES[langName] includes its type and with the rows
\* (0-based) of its start and end positions.  A node that is not semantic is
\* ignored whatever its rows: the root, spanning the file, stands for them.
NodePairs(nLines) ==
  {n \in [semantic : BOOLEAN, startRow : 0..(nLines - 1), endRow : 0..(nLines - 1)] :
     /\ n.startRow <= n.endRow
     /\ ~n.semantic => (n.startRow = 0 /\ n.endRow = nLines - 1)}

\* splitLargeNode: fixed windows of chunkSize lines over the rows of the node.
RECURSIVE SplitLargeLoop(_, _, _, _)
SplitLargeLoop(lines, i, endLine, chunks) ==
  IF i > endLine THEN chunks
  ELSE LET chunkEnd == IF i + chunkSize - 1 < endLine THEN i + chunkSize - 1 ELSE endLine
       IN  SplitLargeLoop(lines, i + chunkSize, endLine,
             Append(chunks, [text |-> Join(Slice(lines, i, chunkEnd + 1)),
                             startLine |-> i + 1, endLine |-> chunkEnd + 1,
                             nodeType |-> "node_part"]))

splitLargeNode(node, lines, chunks) ==
  SplitLargeLoop(lines, node.startRow, node.endRow, chunks)

\* The callback of walkTree in ASTChunker.chunk, for one node.
VisitNode(node, lines, chunks) ==
  IF ~node.semantic THEN chunks
  ELSE IF node.endRow - node.startRow < 2 THEN chunks
  ELSE LET text == Join(Slice(lines, node.startRow, node.endRow + 1))
       IN  IF TextLength(text) > (chunkSize * 4) * 4
             THEN splitLargeNode(node, lines, chunks)
             ELSE Append(chunks, [text |-> text, startLine |-> node.startRow + 1,
                                  endLine |-> node.endRow + 1, nodeType |-> "node"])

RECURSIVE walkTree(_, _, _)
walkTree(nodes, lines, chunks) ==
  IF nodes = <<>> THEN chunks
  ELSE walkTree(Tail(nodes), lines, VisitNode(Head(nodes), lines, chunks))

\* chunks.sort((a, b) => a.startLine - b.startLine): Array.prototype.sort is stable.
RECURSIVE InsertByStart(_, _)
InsertByStart(sorted, c) ==
  IF sorted = <<>> THEN <<c>>
  ELSE IF c.startLine < sorted[Len(sorted)].startLine
    THEN Append(InsertByStart(SubSeq(sorted, 1, Len(sorted) - 1), c), sorted[Len(sorted)])
    ELSE Append(sorted, c)

RECURSIVE SortByStartFrom(_, _)
SortByStartFrom(chunks, sorted) ==
  IF chunks = <<>> THEN sorted
  ELSE SortByStartFrom(Tail(chunks), InsertByStart(sorted, Head(chunks)))

SortByStart(chunks) == SortByStartFrom(chunks, <<>>)

\* The extension of the previous chunk without re-slicing its text (a faulty variant).
ExtendPrevKeepText(prev, chunk, lines) == [prev EXCEPT !.endLine = chunk.endLine]

\* prev.endLine = chunk.endLine; prev.text = lines.slice(prev.startLine - 1, prev.endLine).join('\n')
ExtendPrev(prev, chunk, lines) ==
  [prev EXCEPT !.endLine = chunk.endLine,
               !.text = Join(Slice(lines, prev.startLine - 1, chunk.endLine))]

\* The test of the overlap that lets a chunk starting on the last line of
\* the previous one through (a faulty variant).
OverlapsPrevStrict(chunk, prev) == chunk.startLine < prev.endLine

\* chunk.startLine <= prev.endLine
OverlapsPrev(chunk, prev) == chunk.startLine <= prev.endLine

RECURSIVE mergeAndCleanChunks(_, _, _)
mergeAndCleanChunks(chunks, lines, cleaned) ==
  IF chunks = <<>> THEN cleaned
  ELSE LET chunk == Head(chunks)
       IN  IF Len(cleaned) > 0 /\ OverlapsPrev(chunk, cleaned[Len(cleaned)])
             THEN mergeAndCleanChunks(Tail(chunks), lines,
                    IF chunk.endLine > cleaned[Len(cleaned)].endLine
                      THEN [cleaned EXCEPT ![Len(cleaned)] =
                              ExtendPrev(cleaned[Len(cleaned)], chunk, lines)]
                      ELSE cleaned)
             ELSE mergeAndCleanChunks(Tail(chunks), lines, Append(cleaned, chunk))

\* What the collaborators of ASTChunker.chunk do in one call: Parser.init,
\* getLanguageForFile, loadLanguage, parser.parse and the tree it returns (in
\* pre-order the start rows never decrease).
AstFailures ==
  {e \in [initOk : BOOLEAN, langName : BOOLEAN, grammar : BOOLEAN, parseOk : BOOLEAN,
          nodes : {<<>>}] : ~(e.initOk /\ e.langName /\ e.grammar /\ e.parseOk)}

AstEnvs(nLines, maxNodes) ==
  AstFailures \cup
  {e \in [initOk : {TRUE}, langName : {TRUE}, grammar : {TRUE}, parseOk : {TRUE},
          nodes : UNION {[1..k -> NodePairs(nLines)] : k \in 0..maxNodes}] :
     \A k \in 1..(Len(e.nodes) - 1) : e.nodes[k].startRow <= e.nodes[k + 1].startRow}

\* ASTChunker.chunk: the spans, or "throws" when init() rejects.
astChunk(content, env) ==
  IF ~env.initOk THEN [threw |-> TRUE, chunks |-> <<>>]
  ELSE IF ~env.langName \/ ~env.grammar \/ ~env.parseOk
    THEN [threw |-> FALSE, chunks |-> smartChunk(content)]
  ELSE LET lines == Split(content)
           chunks == walkTree(env.nodes, lines, <<>>)
       IN  IF Len(chunks) = 0
             THEN [threw |-> FALSE, chunks |-> smartChunk(content)]
             ELSE [threw |-> FALSE,
                   chunks |-> mergeAndCleanChunks(SortByStart(chunks), lines, <<>>)]


\* ------------------------------------------------------- the workspace

Files == {"a.js", "b.py"}

\* The order in which discoverFiles (fdir) returns the files.
FileOrder == <<"a.js", "b.py">>

\* The contents a file may have: one of two chunks, one of one chunk and one so
\* short that smartChunk returns no chunk for it.
Contents ==
  { <<"W", "\n", "W", "\n", "W">>, <<"W", " ", "W">>, <<"W">> }

Absent == [state |-> "absent", content |-> <<>>]

\* A file that fs.stat or fs.readFile fails on.
Unreadable == [state |-> "unreadable", content |-> <<>>]

\* A file of more than config.maxFileSize bytes.
TooLarge == [state |-> "big", content |-> <<>>]

Readable(content) == [state |-> "ok", content |-> content]

DiskValues == {Absent, Unreadable, TooLarge} \cup {Readable(c) : c \in Contents}

\* hashContent: the MD5 digest of the content, taken to have no collisions.
hashContent(content) == <<"md5">> \o content

\* What getFileHash returns for a file without a row: null.
NoHash == <<>>

\* ------------------------------------------------------------ SQLiteCache
\* The database is open (config.enableCache, load() succeeded): this.db is set.

RowsOfFile(rows, file) == SelectSeq(rows, LAMBDA r : r.file = file)

\* DELETE FROM embeddings WHERE file = ?
removeFileFromStore(rows, file) == SelectSeq(rows, LAMBDA r : r.file # file)

\* INSERT INTO embeddings, one row
addToStore(rows, chunk) == Append(rows, chunk)

\* INSERT INTO embeddings, every chunk in one transaction
addBatchToStore(rows, chunks) == rows \o chunks

\* DELETE FROM embeddings, then addBatchToStore(store)
setVectorStore(rows, store) == IF Len(store) > 0 THEN addBatchToStore(<<>>, store) ELSE <<>>

getFileHash(hashes, file) == hashes[file]

\* INSERT OR REPLACE INTO file_hashes
setFileHash(hashes, file, hash) == [hashes EXCEPT ![file] = hash]

\* DELETE FROM file_hashes WHERE file = ?
deleteFileHash(hashes, file) == [hashes EXCEPT ![file] = NoHash]

\* The JavaScript property cache.fileHashes.  SQLiteCache defines no such
\* property: it is undefined until indexAll(force) assigns a new Map to it.
UndefinedMap == [defined |-> FALSE, keys |-> {}]

NewMap == [defined |-> TRUE, keys |-> {}]

\* The rows a chunker's spans become in the store.
RowOf(file, chunk) ==
  [file |-> file, startLine |-> chunk.startLine, endLine |-> chunk.endLine,
   content |-> chunk.text]

RECURSIVE RowsOfChunks(_, _)
RowsOfChunks(file, chunks) ==
  IF chunks = <<>> THEN <<>>
  ELSE <<RowOf(file, Head(chunks))>> \o RowsOfChunks(file, Tail(chunks))

\* --------------------------------------------------------- CodebaseIndexer

Calls == {"tool", "auto"}

MaxCalls == 2

MaxEdits == 2

MaxFailures == 1

MaxBatchSize == 2

\* config.watchFiles
watchFiles == TRUE

NoRun ==
  [force |-> FALSE, files |-> <<>>, i |-> 0, j |-> 0, k |-> 0, allChunks |-> <<>>,
   fileHashes |-> <<>>, results |-> <<>>, totalChunks |-> 0, processedFiles |-> 0,
   skippedFiles |-> 0, batchCounter |-> 0, throttled |-> 0,
   unchanged |-> {}, chunked |-> {}, entries |-> {}, embedded |-> {}, failed |-> {},
   skipped |-> {}, written |-> {}]

IdleStatus == [inProgress |-> FALSE, totalFiles |-> 0, processedFiles |-> 0, percentage |-> 0]

NoHandler == [pc |-> "idle", file |-> "", content |-> <<>>, chunks |-> <<>>, k |-> 0,
              allOk |-> TRUE, reindexed |-> FALSE]

Handlers == {"h1", "h2"}

InitIdx ==
  /\ disk \in [Files -> DiskValues]
  /\ edits = 0
  /\ embeddings = <<>>
  /\ fileHashes = [f \in Files |-> NoHash]
  /\ cacheFileHashes = UndefinedMap
  /\ isIndexing = FALSE
  /\ indexingStatus = IdleStatus
  /\ watcherOn = FALSE
  /\ batchSize \in 1..MaxBatchSize
  /\ pc = [c \in Calls |-> "idle"]
  /\ run = [c \in Calls |-> NoRun]
  /\ outcome = [c \in Calls |-> "none"]
  /\ calls = 0
  /\ failures = 0
  /\ events = <<>>
  /\ hs = [h \in Handlers |-> NoHandler]

\* The value every variable of the indexer keeps while only a chunker runs.
IdxIdle ==
  /\ disk = [f \in Files |-> Absent]
  /\ edits = 0
  /\ embeddings = <<>>
  /\ fileHashes = [f \in Files |-> NoHash]
  /\ cacheFileHashes = UndefinedMap
  /\ isIndexing = FALSE
  /\ indexingStatus = IdleStatus
  /\ watcherOn = FALSE
  /\ batchSize = 1
  /\ pc = [c \in Calls |-> "idle"]
  /\ run = [c \in Calls |-> NoRun]
  /\ outcome = [c \in Calls |-> "none"]
  /\ calls = 0
  /\ failures = 0
  /\ events = <<>>
  /\ hs = [h \in Handlers |-> NoHandler]


\* ------------------------------------------------ CodebaseIndexer.indexAll

Range(seq) == {seq[n] : n \in 1..Len(seq)}

Min(a, b) == IF a < b THEN a ELSE b

Max(a, b) == IF a > b THEN a ELSE b

\* if (this.isIndexing), with the guard left out (a faulty variant).
AlreadyIndexingNever == FALSE

\* if (this.isIndexing) return { skipped: true, ... }
AlreadyIndexing == isIndexing

\* The finally block of indexAll reads processedFiles and skippedFiles, which
\* are declared with let inside the try block and are not in scope in the
\* finally block: evaluating them throws a ReferenceError, which replaces the
\* value returned or the error thrown by the try block.
FinallySeesCounters == FALSE

\* How a call that entered the body ends: finally releases the guard, and the
\* promise is settled with what the try block produced unless finally throws.
Settle(tried) == IF FinallySeesCounters THEN tried ELSE "rejected"

\* discoverFiles: the files under the workspace root, in fdir's order.
discoverFiles == SelectSeq(FileOrder, LAMBDA f : disk[f] # Absent)

\* Step 1.5 of indexAll: the cached files absent from the discovery set.
StaleFiles(files) == {f \in cacheFileHashes.keys : f \notin Range(files)}

\* The guard after a finally block that does not release it (a faulty variant).
isIndexingKept == TRUE

\* finally { this.isIndexing = false; ... }
isIndexingAfterFinally == FALSE

\* The first batch or the next one: the locals of the run at its start.
BatchStart(r, i) ==
  [r EXCEPT !.i = i, !.j = 0, !.k = 0, !.allChunks = <<>>, !.fileHashes = <<>>,
            !.results = <<>>]

\* The call of caller c starts: indexAll(force).
Start(c, force) ==
  /\ pc[c] \in {"idle", "done"}
  /\ calls < MaxCalls
  /\ c = "auto" => (~force /\ pc[c] = "idle")
  /\ calls' = calls + 1
  /\ IF AlreadyIndexing
       THEN /\ outcome' = [outcome EXCEPT ![c] = "skipped"]
            /\ pc' = [pc EXCEPT ![c] = "done"]
            /\ run' = [run EXCEPT ![c] = NoRun]
            \* index.js, the auto-index timer: indexAll() returned, so
            \* setupFileWatcher() is called when config.watchFiles is set
            /\ watcherOn' = IF c = "auto" /\ watchFiles THEN TRUE ELSE watcherOn
            /\ UNCHANGED <<isIndexing, indexingStatus, storeVars>>
       ELSE /\ isIndexing' = TRUE
            /\ indexingStatus' = [inProgress |-> TRUE, totalFiles |-> 0,
                                  processedFiles |-> 0, percentage |-> 0]
            /\ embeddings' = IF force THEN setVectorStore(embeddings, <<>>) ELSE embeddings
            /\ cacheFileHashes' = IF force THEN NewMap ELSE cacheFileHashes
            /\ pc' = [pc EXCEPT ![c] = "discover"]
            /\ run' = [run EXCEPT ![c] = [NoRun EXCEPT !.force = force]]
            /\ outcome' = [outcome EXCEPT ![c] = "none"]
            /\ UNCHANGED <<fileHashes, watcherOn>>
  /\ UNCHANGED <<envVars, watchVars, chunkVars,
                 wkVars, libVars>>

\* discoverFiles() resolved with no file: "No files found to index" is
\* returned from the try block, and finally runs.
DiscoveredNone(c) ==
  /\ pc[c] = "discover"
  /\ discoverFiles = <<>>
  /\ isIndexing' = isIndexingAfterFinally
  /\ outcome' = [outcome EXCEPT ![c] = Settle("resolved")]
  /\ pc' = [pc EXCEPT ![c] = "done"]
  /\ UNCHANGED <<indexingStatus, watcherOn, run, calls, envVars, storeVars, watchVars,
                 chunkVars,
                 wkVars, libVars>>

\* discoverFiles() resolved, the run is not forced and cache.fileHashes is
\* undefined: this.cache.fileHashes.keys() throws a TypeError, and finally runs.
DiscoveredPruneThrows(c) ==
  /\ pc[c] = "discover"
  /\ discoverFiles # <<>>
  /\ ~run[c].force
  /\ ~cacheFileHashes.defined
  /\ isIndexing' = isIndexingAfterFinally
  /\ outcome' = [outcome EXCEPT ![c] = Settle("rejected")]
  /\ pc' = [pc EXCEPT ![c] = "done"]
  /\ run' = [run EXCEPT ![c].files = discoverFiles]
  /\ UNCHANGED <<indexingStatus, watcherOn, calls, envVars, storeVars, watchVars,
                 chunkVars,
                 wkVars, libVars>>

\* discoverFiles() resolved with files: the cached files that were not
\* discovered are pruned (not when forced), then initializeWorkers() is awaited.
\* config.embeddingModel is the default, a nomic model, for which no worker is
\* created: this.workers stays empty, the chunks are embedded by
\* processChunksSingleThreaded, and the loop over the batches starts.
Discovered(c) ==
  /\ pc[c] = "discover"
  /\ discoverFiles # <<>>
  /\ run[c].force \/ cacheFileHashes.defined
  /\ LET files == discoverFiles
         stale == IF run[c].force THEN {} ELSE StaleFiles(files)
     IN  /\ embeddings' = SelectSeq(embeddings, LAMBDA r : r.file \notin stale)
         /\ fileHashes' = [f \in Files |-> IF f \in stale THEN NoHash ELSE fileHashes[f]]
         /\ run' = [run EXCEPT ![c] = BatchStart([run[c] EXCEPT !.files = files], 0)]
         /\ indexingStatus' = [indexingStatus EXCEPT !.totalFiles = Len(files)]
  /\ pc' = [pc EXCEPT ![c] = "file"]
  /\ UNCHANGED <<cacheFileHashes, isIndexing, watcherOn, outcome, calls, envVars,
                 watchVars, chunkVars,
                 wkVars, libVars>>

\* The try/catch around each file of a batch, left out (a faulty variant).
CatchesFileErrorNot == FALSE

\* try { stat, read, hash, chunk } catch (error) { skippedFiles++ }
CatchesFileError == TRUE

\* The comparison of the stored hash, always unequal (a faulty variant).
UnchangedNever(stored, hash) == FALSE

\* this.cache.getFileHash(file) === hash
Unchanged(stored, hash) == stored = hash

\* The entries pushed to allChunks for one file.
RECURSIVE ChunkEntries(_, _, _)
ChunkEntries(file, chunks, hash) ==
  IF chunks = <<>> THEN <<>>
  ELSE <<[file |-> file, text |-> Head(chunks).text, startLine |-> Head(chunks).startLine,
          endLine |-> Head(chunks).endLine, hash |-> hash]>>
       \o ChunkEntries(file, Tail(chunks), hash)

\* await this.throttle.throttledBatch(null): no work, and the sleep of
\* batchDelay milliseconds; the delays a run has awaited are counted.
throttledBatch(delays) == delays + 1

\* The end of the batch starting at index i.
BatchEnd(r) == Min(r.i + batchSize, Len(r.files))

\* this.indexingStatus.inProgress = false; percentage = 100 (marking complete)
MarkComplete(status) == [status EXCEPT !.inProgress = FALSE, !.percentage = 100]

\* The for loop of the batches goes on: the next batch, or after the last one
\* the status is marked complete and cache.save() is awaited.
LoopOn(c, r, status) ==
  IF r.i + batchSize < Len(r.files)
    THEN /\ run' = [run EXCEPT ![c] = BatchStart(r, r.i + batchSize)]
         /\ pc' = [pc EXCEPT ![c] = "file"]
         /\ indexingStatus' = status
    ELSE /\ run' = [run EXCEPT ![c] = r]
         /\ pc' = [pc EXCEPT ![c] = "save"]
         /\ indexingStatus' = MarkComplete(status)

\* After the last file of a batch: without any chunk the batch is skipped
\* (continue), otherwise its chunks are embedded.
AfterFile(c, r) ==
  IF r.i + r.j < BatchEnd(r)
    THEN /\ run' = [run EXCEPT ![c] = r]
         /\ UNCHANGED <<pc, indexingStatus>>
    ELSE IF r.allChunks = <<>>
      THEN LoopOn(c, r, indexingStatus)
      ELSE /\ run' = [run EXCEPT ![c] = r]
           /\ pc' = [pc EXCEPT ![c] = "embed"]
           /\ UNCHANGED indexingStatus

\* smartChunk(content, file, this.config), for each content a file may have
smartChunkOf == [content \in Contents |-> smartChunk(content)]

\* fs.stat and fs.readFile of the next file of the batch resolved or failed:
\* the body of the loop over the batch, for one file.
ProcessFile(c) ==
  /\ pc[c] = "file"
  /\ LET r == run[c]
         file == r.files[r.i + r.j + 1]
         d == disk[file]
         hash == hashContent(d.content)
         next == [r EXCEPT !.j = r.j + 1]
     IN  IF d.state \in {"absent", "unreadable"} /\ ~CatchesFileError
           THEN \* the error leaves the try block of indexAll: finally runs
                /\ isIndexing' = isIndexingAfterFinally
                /\ outcome' = [outcome EXCEPT ![c] = Settle("rejected")]
                /\ pc' = [pc EXCEPT ![c] = "done"]
                /\ UNCHANGED <<run, indexingStatus, embeddings>>
           ELSE /\ UNCHANGED <<isIndexing, outcome>>
                /\ IF d.state \in {"absent", "unreadable", "big"}
                     THEN /\ AfterFile(c, [next EXCEPT !.skippedFiles = r.skippedFiles + 1,
                                                        !.skipped = r.skipped \cup {file}])
                          /\ UNCHANGED embeddings
                     ELSE IF Unchanged(getFileHash(fileHashes, file), hash)
                       THEN /\ AfterFile(c, [next EXCEPT
                                               !.skippedFiles = r.skippedFiles + 1,
                                               !.unchanged = r.unchanged \cup {file}])
                            /\ UNCHANGED embeddings
                       ELSE /\ embeddings' = removeFileFromStore(embeddings, file)
                            /\ AfterFile(c, [next EXCEPT
                                 !.allChunks = r.allChunks
                                    \o ChunkEntries(file, smartChunkOf[d.content], hash),
                                 !.fileHashes = Append(r.fileHashes, <<file, hash>>),
                                 !.chunked = r.chunked \cup {file},
                                 !.entries = r.entries \cup
                                    {<<file, x.startLine>> : x \in Range(smartChunkOf[d.content])}])
  /\ UNCHANGED <<fileHashes, cacheFileHashes, watcherOn, calls, envVars, watchVars,
                 chunkVars,
                 wkVars, libVars>>

\* The results of a batch that are inserted, every result taken (a faulty variant).
ChunksToInsertAll(results) == results

\* for (const result of results) if (result.success) chunksToInsert.push(...)
ChunksToInsert(results) == SelectSeq(results, LAMBDA x : x.success)

StripSuccess(x) ==
  [file |-> x.file, startLine |-> x.startLine, endLine |-> x.endLine,
   content |-> x.content]

RECURSIVE InsertRows(_)
InsertRows(results) ==
  IF results = <<>> THEN <<>>
  ELSE <<StripSuccess(Head(results))>> \o InsertRows(Tail(results))

\* for (const [file, hash] of fileHashes) this.cache.setFileHash(file, hash)
RECURSIVE SetFileHashes(_, _)
SetFileHashes(hashes, entries) ==
  IF entries = <<>> THEN hashes
  ELSE SetFileHashes(setFileHash(hashes, Head(entries)[1], Head(entries)[2]),
                     Tail(entries))

\* The ratio taken the wrong way round, total over processed (a faulty variant).
PercentageInverted(processedFiles, estimatedTotal) ==
  IF processedFiles > 0 THEN (estimatedTotal * 100) \div processedFiles ELSE 100

\* Math.floor((processedFiles / estimatedTotal) * 100), or 100
Percentage(processedFiles, estimatedTotal) ==
  IF estimatedTotal > 0 THEN (processedFiles * 100) \div estimatedTotal ELSE 100

\* One result of processChunksSingleThreaded.
ResultOf(chunk, ok) ==
  [file |-> chunk.file, startLine |-> chunk.startLine, endLine |-> chunk.endLine,
   content |-> IF ok THEN chunk.text ELSE <<>>, success |-> ok]

\* The embedder resolved (ok) or threw for the next chunk of the batch.  After
\* the last chunk the results are written: the successful ones are inserted in
\* one transaction, the hashes of the batch are set, the counters and the
\* status are updated, the throttle delay is awaited and the loop goes on.
EmbedChunk(c, ok) ==
  /\ pc[c] = "embed"
  /\ ok \/ failures < MaxFailures
  /\ failures' = IF ok THEN failures ELSE failures + 1
  /\ LET r == run[c]
         chunk == r.allChunks[r.k + 1]
         results == Append(r.results, ResultOf(chunk, ok))
         seen == [r EXCEPT !.k = r.k + 1, !.results = results,
                           !.embedded = r.embedded \cup {chunk.file},
                           !.failed = IF ok THEN r.failed
                                      ELSE r.failed \cup {<<chunk.file, chunk.startLine>>}]
     IN  IF r.k + 1 < Len(r.allChunks)
           THEN /\ run' = [run EXCEPT ![c] = seen]
                /\ UNCHANGED <<pc, embeddings, fileHashes, indexingStatus>>
           ELSE LET chunksToInsert == InsertRows(ChunksToInsert(results))
                    filesProcessedInBatch == {x.file : x \in Range(ChunksToInsert(results))}
                    processedFiles == r.processedFiles + Cardinality(filesProcessedInBatch)
                    estimatedTotal == Len(r.files) - r.skippedFiles
                        done == [seen EXCEPT
                                   !.totalChunks = r.totalChunks + Len(chunksToInsert),
                                   !.processedFiles = processedFiles,
                                   !.batchCounter = r.batchCounter + 1,
                                   !.throttled = throttledBatch(r.throttled),
                                   !.written = r.written \cup Range(chunksToInsert)]
                        status == [indexingStatus EXCEPT
                                     !.processedFiles = processedFiles,
                                     !.totalFiles = Max(estimatedTotal, processedFiles),
                                     !.percentage = Percentage(processedFiles, estimatedTotal)]
                    IN  /\ embeddings' = IF Len(chunksToInsert) > 0
                                           THEN addBatchToStore(embeddings, chunksToInsert)
                                           ELSE embeddings
                        /\ fileHashes' = SetFileHashes(fileHashes, r.fileHashes)
                        /\ LoopOn(c, done, status)
  /\ UNCHANGED <<cacheFileHashes, isIndexing, watcherOn, outcome, calls, disk, edits,
                 batchSize, watchVars, chunkVars,
                 wkVars, libVars>>

\* cache.save() resolved: the result is returned from the try block, and
\* finally runs.  In index.js the auto-index timer then installs the watcher.
Saved(c) ==
  /\ pc[c] = "save"
  /\ isIndexing' = isIndexingAfterFinally
  /\ outcome' = [outcome EXCEPT ![c] = Settle("resolved")]
  /\ indexingStatus' =
       IF FinallySeesCounters
         THEN [indexingStatus EXCEPT
                 !.totalFiles = run[c].processedFiles + run[c].skippedFiles]
         ELSE indexingStatus
  /\ watcherOn' = IF c = "auto" /\ watchFiles /\ Settle("resolved") = "resolved"
                    THEN TRUE ELSE watcherOn
  /\ pc' = [pc EXCEPT ![c] = "done"]
  /\ UNCHANGED <<run, calls, envVars, storeVars, watchVars, chunkVars,
                 wkVars, libVars>>


\* ---------------------------------------------- the workspace is edited

EventType(old, new) ==
  IF new = Absent THEN "unlink" ELSE IF old = Absent THEN "add" ELSE "change"

\* A file is created, changed or deleted; the watcher, if installed, emits the
\* event.
EditFile(f, v) ==
  /\ edits < MaxEdits
  /\ v \in {Absent} \cup {Readable(content) : content \in Contents}
  /\ v # disk[f]
  /\ disk' = [disk EXCEPT ![f] = v]
  /\ edits' = edits + 1
  /\ events' = IF watcherOn
                 THEN Append(events, [type |-> EventType(disk[f], v), file |-> f])
                 ELSE events
  /\ UNCHANGED <<batchSize, failures, storeVars, indexerVars, hs, chunkVars,
                 wkVars, libVars>>

\* ------------------------------ setupFileWatcher and CodebaseIndexer.indexFile

\* The "unlink" handler: removeFileFromStore, deleteFileHash, save.
OnUnlink ==
  /\ events # <<>>
  /\ Head(events).type = "unlink"
  /\ embeddings' = removeFileFromStore(embeddings, Head(events).file)
  /\ fileHashes' = deleteFileHash(fileHashes, Head(events).file)
  /\ events' = Tail(events)
  /\ UNCHANGED <<cacheFileHashes, hs, envVars, indexerVars, chunkVars,
                 wkVars, libVars>>

\* The "add" and "change" handlers: await this.indexFile(fullPath), up to its
\* first await.
OnAddOrChange(h) ==
  /\ events # <<>>
  /\ Head(events).type \in {"add", "change"}
  /\ hs[h].pc = "idle"
  /\ h = CHOOSE g \in Handlers : hs[g].pc = "idle"
  /\ hs' = [hs EXCEPT ![h] = [NoHandler EXCEPT !.pc = "read", !.file = Head(events).file]]
  /\ events' = Tail(events)
  /\ UNCHANGED <<envVars, storeVars, indexerVars, chunkVars,
                 wkVars, libVars>>

\* indexFile: fs.stat and fs.readFile resolved or failed.  An unchanged,
\* oversized or unreadable file returns 0; otherwise the old chunks are removed
\* and the content is chunked.
IndexFileRead(h) ==
  /\ hs[h].pc = "read"
  /\ LET file == hs[h].file
         d == disk[file]
         hash == hashContent(d.content)
         chunks == smartChunk(d.content)
     IN  IF d.state # "ok" \/ getFileHash(fileHashes, file) = hash
           THEN /\ hs' = [hs EXCEPT ![h] = NoHandler]
                /\ UNCHANGED <<embeddings, fileHashes>>
           ELSE /\ embeddings' = removeFileFromStore(embeddings, file)
                /\ IF chunks = <<>>
                     THEN /\ fileHashes' = setFileHash(fileHashes, file, hash)
                          /\ hs' = [hs EXCEPT ![h] = NoHandler]
                     ELSE /\ UNCHANGED fileHashes
                          /\ hs' = [hs EXCEPT ![h] =
                                      [@ EXCEPT !.pc = "embed", !.content = d.content,
                                                !.chunks = chunks, !.k = 0,
                                                !.reindexed = TRUE]]
  /\ UNCHANGED <<cacheFileHashes, events, envVars, indexerVars, chunkVars,
                 wkVars, libVars>>

\* indexFile: the embedder resolved (ok) or threw for the next chunk; after the
\* last chunk the hash of the file is set, indexFile returns and the handler
\* awaits cache.save().
IndexFileEmbed(h, ok) ==
  /\ hs[h].pc = "embed"
  /\ ok \/ failures < MaxFailures
  /\ failures' = IF ok THEN failures ELSE failures + 1
  /\ LET x == hs[h]
         chunk == x.chunks[x.k + 1]
         last == x.k + 1 = Len(x.chunks)
     IN  /\ embeddings' = IF ok THEN addToStore(embeddings, RowOf(x.file, chunk))
                                ELSE embeddings
         /\ fileHashes' = IF last THEN setFileHash(fileHashes, x.file, hashContent(x.content))
                                  ELSE fileHashes
         /\ hs' = [hs EXCEPT ![h] = IF last THEN NoHandler
                                             ELSE [x EXCEPT !.k = x.k + 1,
                                                            !.allOk = x.allOk /\ ok]]
  /\ UNCHANGED <<cacheFileHashes, events, disk, edits, batchSize, indexerVars, chunkVars,
                 wkVars, libVars>>

Next ==
  \/ \E c \in Calls, force \in BOOLEAN : Start(c, force)
  \/ \E c \in Calls : DiscoveredNone(c)
  \/ \E c \in Calls : DiscoveredPruneThrows(c)
  \/ \E c \in Calls : Discovered(c)
  \/ \E c \in Calls : ProcessFile(c)
  \/ \E c \in Calls, ok \in BOOLEAN : EmbedChunk(c, ok)
  \/ \E c \in Calls : Saved(c)
  \/ \E f \in Files, v \in DiskValues : EditFile(f, v)
  \/ OnUnlink
  \/ \E h \in Handlers : OnAddOrChange(h)
  \/ \E h \in Handlers : IndexFileRead(h)
  \/ \E h \in Handlers, ok \in BOOLEAN : IndexFileEmbed(h, ok)


\* ---------------------------- CodebaseIndexer.processChunksWithWorkers

MaxChunks == 5

MaxWorkers == 3

\* Math.ceil(allChunks.length / this.workers.length)
SliceSize(n, workers) == (n + workers - 1) \div workers

\* The slice of worker i reaching one chunk into the next slice (a faulty variant).
WorkerChunksOverlap(chunks, i, size) ==
  SubSeq(chunks, Min(i * size, Len(chunks)) + 1, Min((i + 1) * size + 1, Len(chunks)))

\* allChunks.slice(i * chunkSize, (i + 1) * chunkSize), i counted from 0
WorkerChunks(chunks, i, size) ==
  SubSeq(chunks, Min(i * size, Len(chunks)) + 1, Min((i + 1) * size, Len(chunks)))

\* workerPromises: one entry per worker whose slice is not empty.
RECURSIVE WorkerPromises(_, _, _, _)
WorkerPromises(chunks, i, workers, size) ==
  IF i >= workers THEN <<>>
  ELSE LET workerChunks == WorkerChunks(chunks, i, size)
           rest == WorkerPromises(chunks, i + 1, workers, size)
       IN  IF workerChunks = <<>> THEN rest
           ELSE <<[worker |-> i, chunks |-> workerChunks, how |-> "pending",
                   results |-> <<>>]>> \o rest

\* One result of a chunk, from a worker or from processChunksSingleThreaded.
\* A failed one carries error: error.message instead of content and vector.
ResultFor(chunk, ok, by) == [chunk |-> chunk, success |-> ok, by |-> by, error |-> ~ok]

\* The result set a worker replies with: one result per chunk of its slice,
\* each embedded or failed.
WorkerResultSets(chunks) ==
  {[n \in 1..Len(chunks) |-> ResultFor(chunks[n], ok[n], "worker")] :
     ok \in [1..Len(chunks) -> BOOLEAN]}

\* The loop that collects workerResults into results.
RECURSIVE CollectResults(_)
CollectResults(slices) ==
  IF slices = <<>> THEN <<>>
  ELSE (IF Len(Head(slices).results) > 0 THEN Head(slices).results ELSE <<>>)
       \o CollectResults(Tail(slices))

\* failedChunks, with no chunk ever collected for a retry (a faulty variant).
CollectFailedNone(slices) == <<>>

\* The loop that collects workerResults into failedChunks.
RECURSIVE CollectFailed(_)
CollectFailed(slices) ==
  IF slices = <<>> THEN <<>>
  ELSE (IF Len(Head(slices).results) > 0 THEN <<>>
        ELSE IF Len(Head(slices).chunks) > 0 THEN Head(slices).chunks ELSE <<>>)
       \o CollectFailed(Tail(slices))

\* The value every variable of the orchestrator keeps while it is not run.
WorkersIdle ==
  /\ wkPc = "off"
  /\ wkWorkers = 0
  /\ wkChunks = <<>>
  /\ wkSlices = <<>>
  /\ wkFailed = [chunks |-> <<>>, k |-> 0]
  /\ wkResults = <<>>

InitWorkers ==
  /\ wkPc = "input"
  /\ wkWorkers \in 0..MaxWorkers
  /\ \E n \in 1..MaxChunks : wkChunks = [k \in 1..n |-> k]
  /\ wkSlices = <<>>
  /\ wkFailed = [chunks |-> <<>>, k |-> 0]
  /\ wkResults = <<>>

\* The call up to await Promise.all: without workers every chunk goes to
\* processChunksSingleThreaded; otherwise each worker is posted its slice.
Distribute ==
  /\ wkPc = "input"
  /\ IF wkWorkers = 0
       THEN /\ wkPc' = "fallback"
            /\ wkFailed' = [chunks |-> wkChunks, k |-> 0]
            /\ UNCHANGED wkSlices
       ELSE /\ wkPc' = "await"
            /\ wkSlices' = WorkerPromises(wkChunks, 0, wkWorkers,
                                          SliceSize(Len(wkChunks), wkWorkers))
            /\ UNCHANGED wkFailed
  /\ UNCHANGED <<wkWorkers, wkChunks, wkResults, idxVars, chunkVars, libVars>>

\* workerPromises once the promise of slice n is resolved with results.
ResolveSlice(n, how, results) ==
  [wkSlices EXCEPT ![n] = [@ EXCEPT !.how = how, !.results = results]]

\* The promise of slice n is still pending.
Pending(n) == wkPc = "await" /\ n \in 1..Len(wkSlices) /\ wkSlices[n].how = "pending"

\* handler: a message { type: "results" } with the batchId of the slice
WorkerReplies(n) ==
  /\ Pending(n)
  /\ \E results \in WorkerResultSets(wkSlices[n].chunks) :
       wkSlices' = ResolveSlice(n, "results", results)
  /\ UNCHANGED <<wkPc, wkWorkers, wkChunks, wkFailed, wkResults, idxVars, chunkVars, libVars>>

\* handler: a message { type: "error" } with the batchId of the slice
WorkerReportsError(n) ==
  /\ Pending(n)
  /\ wkSlices' = ResolveSlice(n, "error", <<>>)
  /\ UNCHANGED <<wkPc, wkWorkers, wkChunks, wkFailed, wkResults, idxVars, chunkVars, libVars>>

\* errorHandler: the worker emitted "error"
WorkerCrashes(n) ==
  /\ Pending(n)
  /\ wkSlices' = ResolveSlice(n, "crash", <<>>)
  /\ UNCHANGED <<wkPc, wkWorkers, wkChunks, wkFailed, wkResults, idxVars, chunkVars, libVars>>

\* The timeout of WORKER_TIMEOUT ms expired.
WorkerTimesOut(n) ==
  /\ Pending(n)
  /\ wkSlices' = ResolveSlice(n, "timeout", <<>>)
  /\ UNCHANGED <<wkPc, wkWorkers, wkChunks, wkFailed, wkResults, idxVars, chunkVars, libVars>>

\* Promise.all resolved: the results are collected, and the chunks of the
\* slices that gave none are handed to processChunksSingleThreaded.
AllSettled ==
  /\ wkPc = "await"
  /\ \A n \in 1..Len(wkSlices) : wkSlices[n].how # "pending"
  /\ wkResults' = CollectResults(wkSlices)
  /\ wkFailed' = [chunks |-> CollectFailed(wkSlices), k |-> 0]
  /\ wkPc' = IF Len(CollectFailed(wkSlices)) > 0 THEN "fallback" ELSE "returned"
  /\ UNCHANGED <<wkWorkers, wkChunks, wkSlices, idxVars, chunkVars, libVars>>

\* processChunksSingleThreaded: the embedder resolved (ok) or threw for the
\* next chunk; after the last one the results are returned.
RetryChunk(ok) ==
  /\ wkPc = "fallback"
  /\ wkResults' = Append(wkResults,
                         ResultFor(wkFailed.chunks[wkFailed.k + 1], ok, "fallback"))
  /\ wkFailed' = [wkFailed EXCEPT !.k = wkFailed.k + 1]
  /\ wkPc' = IF wkFailed.k + 1 = Len(wkFailed.chunks) THEN "returned" ELSE "fallback"
  /\ UNCHANGED <<wkWorkers, wkChunks, wkSlices, idxVars, chunkVars, libVars>>

NextWorkers ==
  \/ Distribute
  \/ \E n \in 1..MaxWorkers : WorkerReplies(n)
  \/ \E n \in 1..MaxWorkers : WorkerReportsError(n)
  \/ \E n \in 1..MaxWorkers : WorkerCrashes(n)
  \/ \E n \in 1..MaxWorkers : WorkerTimesOut(n)
  \/ AllSettled
  \/ \E ok \in BOOLEAN : RetryChunk(ok)


\* ------------------------------------------- the chunkers, run on a text

MaxLines == 5

MaxNodes == 2

LexLineKinds ==
  { <<>>, <<"W">>, <<" ", "F">>, <<"W", "W">>, <<"W", " ", "W", "W">> }

AstLineKinds == { <<"W">>, <<"W", "W">> }

LinesOver(kinds) == UNION {[1..n -> kinds] : n \in 1..MaxLines}

\* config.chunkingMode: "smart", "ast" or "line"
ChunkingModes == {"smart", "ast", "line"}

\* getChunker that never returns an ASTChunker (a faulty variant).
getChunkerNeverAst(mode) == FALSE

\* getChunker: config.chunkingMode === 'ast'
getChunkerIsAst(mode) == mode = "ast"

NoEnv == [initOk |-> TRUE, langName |-> FALSE, grammar |-> FALSE, parseOk |-> FALSE,
          nodes |-> <<>>]

ChunkIdle ==
  /\ ckPc = "off" /\ ckContent = <<>> /\ ckAst = FALSE /\ ckEnv = NoEnv /\ ckSpans = <<>>
  /\ ckMode = "smart"

InitChunk ==
  /\ ckPc = "input"
  /\ ckSpans = <<>>
  /\ ckEnv = NoEnv
  /\ ckMode \in ChunkingModes
  /\ ckAst = getChunkerIsAst(ckMode)
  /\ \/ ckAst = FALSE /\ \E lines \in LinesOver(LexLineKinds) : ckContent = Join(lines)
     \/ ckAst = TRUE /\ \E lines \in LinesOver(AstLineKinds) : ckContent = Join(lines)

\* smartChunk(content, file, config)
RunSmartChunk ==
  /\ ckPc = "input"
  /\ ckPc' = "smart"
  /\ ckSpans' = smartChunk(ckContent)
  /\ UNCHANGED <<ckMode, ckContent, ckAst, ckEnv, idxVars, wkVars, libVars>>

\* await chunker.chunk(content, file) of an ASTChunker
RunAstChunk ==
  /\ ckPc = "input"
  /\ ckAst
  /\ \E env \in AstEnvs(Len(Split(ckContent)), MaxNodes) :
       LET r == astChunk(ckContent, env)
       IN  /\ ckPc' = IF r.threw THEN "threw" ELSE "ast"
           /\ ckSpans' = r.chunks
           /\ ckEnv' = env
  /\ UNCHANGED <<ckMode, ckContent, ckAst, idxVars, wkVars, libVars>>

\* await chunker.chunk(content, file) of the wrapper getChunker returns when
\* the mode is not 'ast'
RunWrapperChunk ==
  /\ ckPc = "input"
  /\ ~ckAst
  /\ ckPc' = "wrapper"
  /\ ckSpans' = smartChunk(ckContent)
  /\ UNCHANGED <<ckMode, ckContent, ckAst, ckEnv, idxVars, wkVars, libVars>>

\* The chunking step of indexAll and of indexFile:
\* const chunks = smartChunk(content, file, this.config).  ckEnv records what
\* the parser would do with this file at the time of the call.
IndexerChunksFile ==
  /\ ckPc = "input"
  /\ ckPc' = "indexed"
  /\ ckSpans' = smartChunk(ckContent)
  /\ ckEnv' \in IF ckAst THEN AstEnvs(Len(Split(ckContent)), MaxNodes) ELSE {NoEnv}
  /\ UNCHANGED <<ckMode, ckContent, ckAst, idxVars, wkVars, libVars>>

NextChunk == RunSmartChunk \/ RunAstChunk \/ RunWrapperChunk \/ IndexerChunksFile

\* ------------------------------------- the store, called on its own

MaxStore == 2

MaxStoreCalls == 3

\* The chunks given to the store.  A chunk whose content is undefined is
\* refused by the table: content TEXT NOT NULL.
StoreChunks ==
  { [file |-> "a.js", startLine |-> 1, content |-> "x"],
    [file |-> "b.py", startLine |-> 1, content |-> "y"],
    [file |-> "b.py", startLine |-> 2, content |-> "undefined"] }

StoreArgs == UNION {[1..n -> StoreChunks] : n \in 0..MaxStore}

\* stmt.run throws SQLITE_CONSTRAINT for the chunk
InsertThrows(chunk) == chunk.content = "undefined"

\* this.db.transaction(() => { for (const chunk of chunks) stmt.run(...) })():
\* all the rows are inserted, or the first throwing insert rolls all of them
\* back and the error is thrown on.
runInsertTransaction(rows, chunks) ==
  IF \E k \in 1..Len(chunks) : InsertThrows(chunks[k])
    THEN [threw |-> TRUE, rows |-> rows]
    ELSE [threw |-> FALSE, rows |-> addBatchToStore(rows, chunks)]

\* this.db.exec('DELETE FROM embeddings'), a statement committed on its own
deleteAllRows(rows) == <<>>

StoreIdle ==
  stPc = "off" /\ stRows = <<>> /\ stArg = <<>> /\ stPrev = <<>> /\ stCalls = 0

\* ------------------------------------------------- the legacy migration

MaxLegacy == 2

MaxLoads == 3

MaxRows == 3

MigrateIdle ==
  /\ mgPc = "off"
  /\ mgJson = [cache |-> "absent", hashes |-> "absent"]
  /\ mgLegacy = 0
  /\ mgRows = <<>>
  /\ mgHashes = FALSE
  /\ mgImports = 0
  /\ mgLoads = 0

\* ------------------------------------------------------- the shutdown

MaxWal == 4

ShutdownIdle ==
  /\ sdEnableCache = TRUE
  /\ sdInit = "off"
  /\ sdWatcher = FALSE
  /\ sdWal = 0
  /\ sdHandler = "none"
  /\ sdSignal = "none"
  /\ sdSaves = 0

\* ------------------------------------------ the progress notifications

MaxProgressFiles == 3

MaxProgressBatch == 2

\* this.server: null, a server whose sendNotification returns, or one whose
\* sendNotification throws (also: a server without that method).
ServerKinds == {"none", "delivers", "throws"}

\* sendProgress without its try/catch (a faulty variant).
sendProgressCatchesNot == FALSE

\* The try/catch of sendProgress around this.server.sendNotification.
sendProgressCatches == TRUE

\* sendProgress(progress, total, message): whether it threw, and the
\* notifications the client has received.
sendProgress(server, sent, progress) ==
  [threw |-> server = "throws" /\ ~sendProgressCatches,
   sent |-> IF server = "delivers" THEN Append(sent, progress) ELSE sent]

\* The locals of an indexAll run that bear on its notifications, the files it
\* wrote to the store, what its try block produced and how its promise settled.
NoProgressRun ==
  [pc |-> "off", i |-> 0, processedFiles |-> 0, skippedFiles |-> 0, store |-> {},
   sent |-> <<>>, tried |-> "none", filesProcessed |-> 0, outcome |-> "none"]

\* An error left the try block at a sendProgress call: finally runs.
ProgressAborted(r, sent) ==
  [r EXCEPT !.pc = "done", !.sent = sent, !.tried = "rejected",
            !.outcome = Settle("rejected")]

\* The files of the batch that starts after file i.
BatchFiles(i) == {f \in 1..pgFiles : i < f /\ f <= i + pgBatch}

\* Math.min(95, Math.floor(10 + (i / files.length) * 85))
progressPercent(i) == Min(95, 10 + ((i * 85) \div pgFiles))

\* processedFiles > 0 && (processedFiles % (adaptiveBatchSize * 2) === 0
\*                        || i + adaptiveBatchSize >= files.length)
ProgressDue(processedFiles, i) ==
  /\ processedFiles > 0
  /\ \/ processedFiles % (pgBatch * 2) = 0
     \/ i + pgBatch >= pgFiles

\* The next batch, or the end of the loop.
ProgressLoopOn(r) ==
  IF r.i + pgBatch < pgFiles THEN [r EXCEPT !.i = r.i + pgBatch]
  ELSE [r EXCEPT !.pc = "complete"]

\* indexAll after discoverFiles: no file, or the notification of the discovery.
DiscoverStep(r, server) ==
  IF pgFiles = 0
    THEN LET n == sendProgress(server, r.sent, 100)
         IN  IF n.threw THEN ProgressAborted(r, n.sent)
             ELSE [r EXCEPT !.pc = "done", !.sent = n.sent, !.tried = "returned",
                            !.outcome = Settle("resolved")]
    ELSE LET n == sendProgress(server, r.sent, 5)
         IN  IF n.threw THEN ProgressAborted(r, n.sent)
             ELSE [r EXCEPT !.pc = "batch", !.sent = n.sent]

\* One batch of indexAll: its changed files are counted and written, the
\* others skipped; a batch without chunks goes on to the next one at once.
BatchStep(r, server) ==
  LET changed == BatchFiles(r.i) \cap pgChanged
      counted == [r EXCEPT !.processedFiles = r.processedFiles + Cardinality(changed),
                           !.skippedFiles = r.skippedFiles
                                            + Cardinality(BatchFiles(r.i) \ changed)]
      written == [counted EXCEPT !.store = r.store \cup changed]
  IN  IF changed = {} THEN ProgressLoopOn(counted)
      ELSE IF ~ProgressDue(written.processedFiles, r.i) THEN ProgressLoopOn(written)
      ELSE LET n == sendProgress(server, r.sent, progressPercent(r.i))
           IN  IF n.threw THEN ProgressAborted(written, n.sent)
               ELSE ProgressLoopOn([written EXCEPT !.sent = n.sent])

\* The end of indexAll: the completion notification, cache.save(), the return.
CompleteStep(r, server) ==
  LET n == sendProgress(server, r.sent, 100)
  IN  IF n.threw THEN ProgressAborted(r, n.sent)
      ELSE [r EXCEPT !.pc = "done", !.sent = n.sent, !.tried = "returned",
                     !.filesProcessed = r.processedFiles,
                     !.outcome = Settle("resolved")]

\* The step of a run at its place; a run that is over stays as it is.
RunStep(r, server) ==
  IF r.pc = "discover" THEN DiscoverStep(r, server)
  ELSE IF r.pc = "batch" THEN BatchStep(r, server)
  ELSE IF r.pc = "complete" THEN CompleteStep(r, server)
  ELSE r

ProgressIdle ==
  /\ pgServer = "none"
  /\ pgFiles = 0
  /\ pgChanged = {}
  /\ pgBatch = 1
  /\ pgWith = NoProgressRun
  /\ pgWithout = NoProgressRun

\* Two indexers, one with a server and one without, start indexAll on the
\* same workspace and the same store.
InitProgress ==
  /\ pgServer \in ServerKinds \ {"none"}
  /\ pgFiles \in 0..MaxProgressFiles
  /\ pgChanged \in SUBSET (1..pgFiles)
  /\ pgBatch \in 1..MaxProgressBatch
  /\ pgWith = [NoProgressRun EXCEPT !.pc = "discover"]
  /\ pgWithout = [NoProgressRun EXCEPT !.pc = "discover"]

\* Both runs take the step that follows discoverFiles.
ProgressDiscovered ==
  /\ pgWithout.pc = "discover"
  /\ pgWith' = RunStep(pgWith, pgServer)
  /\ pgWithout' = RunStep(pgWithout, "none")
  /\ UNCHANGED <<pgServer, pgFiles, pgChanged, pgBatch, exceptProgress,
                 chunkVars, idxVars, wkVars>>

\* Both runs process their next batch.
ProgressBatch ==
  /\ pgWithout.pc = "batch"
  /\ pgWith' = RunStep(pgWith, pgServer)
  /\ pgWithout' = RunStep(pgWithout, "none")
  /\ UNCHANGED <<pgServer, pgFiles, pgChanged, pgBatch, exceptProgress,
                 chunkVars, idxVars, wkVars>>

\* Both runs complete.
ProgressComplete ==
  /\ pgWithout.pc = "complete"
  /\ pgWith' = RunStep(pgWith, pgServer)
  /\ pgWithout' = RunStep(pgWithout, "none")
  /\ UNCHANGED <<pgServer, pgFiles, pgChanged, pgBatch, exceptProgress,
                 chunkVars, idxVars, wkVars>>

NextProgress == ProgressDiscovered \/ ProgressBatch \/ ProgressComplete

\* ------------------------------------------------- the similarity score

MaxDim == 3

\* The components a vector may have.
Components == {-1, 0, 1}

Vectors(dim) == [1..dim -> Components]

\* A JavaScript number as cosineSimilarity returns it: NaN, or the quotient
\* of num by the square root of den2.
NaN == [nan |-> TRUE, num |-> 0, den2 |-> 0]

Quotient(num, den2) == [nan |-> FALSE, num |-> num, den2 |-> den2]

NoScore == [nan |-> FALSE, num |-> 0, den2 |-> 1]

\* The for loop of cosineSimilarity: the sum of a[i] * b[i] over i < a.length.
RECURSIVE SumProducts(_, _, _)
SumProducts(a, b, i) ==
  IF i > Len(a) THEN 0 ELSE a[i] * b[i] + SumProducts(a, b, i + 1)

\* dot / (Math.sqrt(normA) * Math.sqrt(normB)): 0 / 0 is NaN; a norm is zero
\* only when every component is, and then dot is zero too.
cosineSimilarity(a, b) ==
  LET dot == SumProducts(a, b, 1)
      normA == SumProducts(a, a, 1)
      normB == SumProducts(b, b, 1)
  IN  IF normA * normB = 0 THEN NaN ELSE Quotient(dot, normA * normB)

CosineIdle ==
  csPc = "off" /\ csA = <<>> /\ csB = <<>> /\ csScore = NoScore

InitCosine ==
  /\ csPc = "input"
  /\ \E dim \in 1..MaxDim : csA \in Vectors(dim) /\ csB \in Vectors(dim)
  /\ csScore = NoScore

\* cosineSimilarity(queryVector, chunk.vector)
ComputeSimilarity ==
  /\ csPc = "input"
  /\ csPc' = "scored"
  /\ csScore' = cosineSimilarity(csA, csB)
  /\ UNCHANGED <<csA, csB, exceptCosine, chunkVars, idxVars, wkVars>>

NextCosine == ComputeSimilarity

\* ---------------------------------------------------------------------
\* lib/ast-chunker.js: the grammar of a file.

\* File names are sequences of characters; a name is put together from at
\* most MaxParts of these parts.
MaxParts == 3

NameParts ==
  { <<".">>, <<"/">>, <<"t">>,
    <<"j","s">>, <<"J","S">>, <<"m","j","s">>, <<"c","j","s">>, <<"j","s","x">>,
    <<"t","s">>, <<"T","s","x">>, <<"p","y">>, <<"P","Y">>, <<"h">>,
    <<"s","q","l">>, <<"m","d">>,
    <<"c","o","n","s","t","r","u","c","t","o","r">> }

RECURSIVE Names(_)
Names(n) ==
  IF n = 0 THEN {<<>>}
  ELSE Names(n - 1) \cup {name \o part : name \in Names(n - 1), part \in NameParts}

\* String.prototype.toLowerCase, on the letters of the names
LowerOf(ch) ==
  CASE ch = "J" -> "j" [] ch = "S" -> "s" [] ch = "T" -> "t"
    [] ch = "P" -> "p" [] ch = "Y" -> "y" [] OTHER -> ch

toLowerCase(str) == [k \in 1..Len(str) |-> LowerOf(str[k])]

\* path.basename(file): what follows the last separator
basename(file) ==
  LET seps == {k \in 1..Len(file) : file[k] = "/"}
  IN  IF seps = {} THEN file
      ELSE SubSeq(file, (CHOOSE k \in seps : \A j \in seps : j <= k) + 1, Len(file))

\* path.extname(file): from the last dot of the base name to its end; empty
\* when there is no dot or the only dot starts the base name.
extname(file) ==
  LET base == basename(file)
      dots == {k \in 1..Len(base) : base[k] = "."}
      last == CHOOSE k \in dots : \A j \in dots : j <= k
  IN  IF dots = {} \/ last = 1 THEN <<>>
      ELSE SubSeq(base, last, Len(base))

\* String.prototype.slice(1)
SliceOne(str) == IF Len(str) <= 1 THEN <<>> ELSE SubSeq(str, 2, Len(str))

\* LANGUAGE_MAP: the own properties of the object literal
LANGUAGE_MAP ==
  [ext \in { <<"j","s">>, <<"m","j","s">>, <<"c","j","s">>, <<"j","s","x">> }
     |-> "javascript"]
  @@ [ext \in { <<"t","s">>, <<"t","s","x">> } |-> "typescript"]
  @@ [ext \in { <<"p","y">> } |-> "python"]
  @@ [ext \in { <<"g","o">> } |-> "go"]
  @@ [ext \in { <<"r","s">> } |-> "rust"]
  @@ [ext \in { <<"r","b">> } |-> "ruby"]
  @@ [ext \in { <<"j","a","v","a">> } |-> "java"]
  @@ [ext \in { <<"c">>, <<"h">> } |-> "c"]
  @@ [ext \in { <<"c","p","p">>, <<"h","p","p">> } |-> "cpp"]

\* LANGUAGE_MAP is a plain object: a key it does not own is looked up on
\* Object.prototype, where `constructor` is the function Object.
ObjectPrototype ==
  [key \in { <<"c","o","n","s","t","r","u","c","t","o","r">> } |-> "[Function: Object]"]

Null == "null"

\* LANGUAGE_MAP[ext] || null, with own properties only (a faulty variant)
LookupOwn(ext) ==
  IF ext \in DOMAIN LANGUAGE_MAP THEN LANGUAGE_MAP[ext] ELSE Null

\* LANGUAGE_MAP[ext] || null
Lookup(ext) ==
  IF ext \in DOMAIN LANGUAGE_MAP THEN LANGUAGE_MAP[ext]
  ELSE IF ext \in DOMAIN ObjectPrototype THEN ObjectPrototype[ext]
  ELSE Null

\* getLanguageForFile(file)
getLanguageForFile(file) ==
  LET ext == toLowerCase(SliceOne(extname(file)))
  IN  Lookup(ext)

NoLanguage == "none"

LanguageIdle == lgPc = "off" /\ lgFile = <<>> /\ lgResult = NoLanguage

InitLanguage ==
  /\ lgPc = "input"
  /\ lgFile \in Names(MaxParts)
  /\ lgResult = NoLanguage

\* chunker.getLanguageForFile(file)
GetLanguage ==
  /\ lgPc = "input"
  /\ lgPc' = "returned"
  /\ lgResult' = getLanguageForFile(lgFile)
  /\ UNCHANGED <<lgFile, exceptLanguage, chunkVars, idxVars, wkVars>>

NextLanguage == GetLanguage


\* ---------------------------------------------------------------------
\* processChunksWithWorkers: the promise of the batch posted to one worker,
\* over the calls that post to this worker one after the other.

MaxBatches == 2

MaxMessages == 2

MaxNow == 5

\* WORKER_TIMEOUT, in ticks of the clock
WORKER_TIMEOUT == 2

\* msg.type; the handler knows "results" and "error"
MessageTypes == {"results", "error", "other"}

\* A batch just posted: batchId is made of the worker index and Date.now();
\* the timeout is armed, handler listens to "message" and errorHandler to
\* "error"; `from` is the batch whose results the promise was resolved with,
\* `late` tells whether a message of this batch came after its timeout, and
\* whether another handler was listening then.
NewBatch(now) ==
  [batchId |-> now, timer |-> TRUE, listening |-> TRUE, onError |-> TRUE,
   settled |-> "pending", from |-> 0, late |-> "no"]

\* resolve(value): a promise is settled once
Resolve(batch, how, from) ==
  IF batch.settled = "pending" THEN [batch EXCEPT !.settled = how, !.from = from]
  ELSE batch

\* The test of the handler, every message taken (a faulty variant).
MatchesAny(msgBatchId, batchId) == TRUE

\* msg.batchId === batchId
MatchesBatch(msgBatchId, batchId) == msgBatchId = batchId

\* handler(msg) of one batch, for a message the worker made for batch k
handler(batch, k, type) ==
  IF batch.listening /\ MatchesBatch(btBatches[k].batchId, batch.batchId)
    THEN LET off == [batch EXCEPT !.timer = FALSE, !.listening = FALSE]
         IN  IF type = "results" THEN Resolve(off, "results", k)
             ELSE IF type = "error" THEN Resolve(off, "error", 0)
             ELSE off
    ELSE batch

\* errorHandler(err) of one batch, registered with once
errorHandler(batch) ==
  IF batch.onError
    THEN Resolve([batch EXCEPT !.timer = FALSE, !.listening = FALSE, !.onError = FALSE],
                 "crash", 0)
    ELSE batch

BatchesIdle == btNow = 0 /\ btBatches = <<>> /\ btSent = 0 /\ btCrashed = FALSE

InitBatches == btNow = 0 /\ btBatches = <<>> /\ btSent = 0 /\ btCrashed = FALSE

\* The promise of some batch is pending: the call that posted it awaits
\* Promise.all.
AwaitingBatch == \E b \in 1..Len(btBatches) : btBatches[b].settled = "pending"

\* A call posts a batch to the worker; the call before it has returned.
BtDispatch ==
  /\ ~AwaitingBatch
  /\ Len(btBatches) < MaxBatches
  /\ btNow + WORKER_TIMEOUT <= MaxNow
  /\ btBatches' = Append(btBatches, NewBatch(btNow))
  /\ UNCHANGED <<btNow, btSent, btCrashed, exceptBatches, chunkVars, idxVars, wkVars>>

\* A millisecond of Date.now() passes.
BtTick ==
  /\ btNow < MaxNow
  /\ btNow' = btNow + 1
  /\ UNCHANGED <<btBatches, btSent, btCrashed, exceptBatches, chunkVars, idxVars, wkVars>>

\* The timeout callback of batch b: worker.off("message", handler); resolve([]).
BtTimeout(b) ==
  /\ b \in 1..Len(btBatches)
  /\ btBatches[b].timer
  /\ btNow >= btBatches[b].batchId + WORKER_TIMEOUT
  /\ btBatches' = [btBatches EXCEPT ![b] =
                     Resolve([@ EXCEPT !.timer = FALSE, !.listening = FALSE], "timeout", 0)]
  /\ UNCHANGED <<btNow, btSent, btCrashed, exceptBatches, chunkVars, idxVars, wkVars>>

\* The worker sends a message with the batchId of batch k: every handler
\* listening on the worker is called with it.
BtMessage(k, type) ==
  /\ ~btCrashed
  /\ btSent < MaxMessages
  /\ k \in 1..Len(btBatches)
  /\ btSent' = btSent + 1
  /\ btBatches' =
       [b \in 1..Len(btBatches) |->
          LET seen == handler(btBatches[b], k, type)
          IN  IF b = k /\ btBatches[k].settled = "timeout"
                THEN [seen EXCEPT !.late =
                        IF \E c \in 1..Len(btBatches) : btBatches[c].listening
                          THEN "listening"
                          ELSE IF @ = "listening" THEN @ ELSE "idle"]
                ELSE seen]
  /\ UNCHANGED <<btNow, btCrashed, exceptBatches, chunkVars, idxVars, wkVars>>

\* The worker emits "error": every errorHandler still registered is called.
BtCrash ==
  /\ ~btCrashed
  /\ btCrashed' = TRUE
  /\ btBatches' = [b \in 1..Len(btBatches) |-> errorHandler(btBatches[b])]
  /\ UNCHANGED <<btNow, btSent, exceptBatches, chunkVars, idxVars, wkVars>>

NextBatches ==
  \/ BtDispatch
  \/ BtTick
  \/ \E b \in 1..MaxBatches : BtTimeout(b)
  \/ \E k \in 1..MaxBatches, type \in MessageTypes : BtMessage(k, type)
  \/ BtCrash


\* ---------------------------------------------------------------------
\* The worker pool: ResourceThrottle and initializeWorkers / terminateWorkers
\* over the runs of indexAll.
\* ---------------------------------------------------------------------

MaxCpus == 8

MaxSetting == 4

MaxPoolRuns == 2

\* A worker setting of the configuration: 'auto', or a number; 0 stands for
\* every value that parses to NaN or below 1.
Auto == [auto |-> TRUE, n |-> 0]

Settings == {Auto} \cup {[auto |-> FALSE, n |-> k] : k \in 0..MaxSetting}

Configs == [workerThreads : Settings, maxWorkers : Settings, nomic : BOOLEAN]

\* this.maxWorkers of the ResourceThrottle constructor
maxWorkers(config, cpuCount) ==
  IF config.maxWorkers.auto
    THEN Max(1, cpuCount \div 4)
    ELSE IF config.maxWorkers.n < 1
           THEN Max(1, cpuCount \div 2)
           ELSE Max(1, Min(config.maxWorkers.n, cpuCount))

\* The request taken as it is, the budget ignored (a faulty variant).
getWorkerCountUnbounded(requested, budget) ==
  IF requested.auto THEN budget ELSE requested.n

\* getWorkerCount(requestedWorkers)
getWorkerCount(requested, budget) ==
  IF requested.auto THEN budget ELSE Min(requested.n, budget)

\* numWorkers of initializeWorkers
numWorkers(config, cpuCount) ==
  IF config.workerThreads.auto
    THEN maxWorkers(config, cpuCount)
    ELSE getWorkerCount(config.workerThreads, maxWorkers(config, cpuCount))

\* const useWorkers = os.cpus().length > 1
useWorkers(cpuCount) == cpuCount > 1

\* initializeWorkers(): the length of this.workers after the call, with
\* `created` of the workers constructed and `ready` telling whether every
\* ready promise resolved.
initializeWorkers(workers, config, cpuCount, created, ready) ==
  IF config.nomic THEN workers
  ELSE IF numWorkers(config, cpuCount) <= 1 THEN workers
  ELSE IF ready THEN workers + created
  ELSE 0

\* Every worker the call set out to construct was constructed and became
\* ready; a call that constructs none has nothing to fail.
AllStarted(config, cpuCount, created, ready) ==
  (useWorkers(cpuCount) /\ ~config.nomic /\ numWorkers(config, cpuCount) > 1) =>
     (ready /\ created = numWorkers(config, cpuCount))

\* terminateWorkers(): this.workers = []
terminateWorkers == 0

\* The cleanup after the batch loop: if (useWorkers) this.terminateWorkers()
CleanupWorkers(workers, cpuCount) ==
  IF useWorkers(cpuCount) THEN terminateWorkers ELSE workers

PoolIdle ==
  /\ plCpus = 1
  /\ plConfig = [workerThreads |-> Auto, maxWorkers |-> Auto, nomic |-> TRUE]
  /\ plPc = "idle"
  /\ plWorkers = 0
  /\ plStarted = TRUE
  /\ plRuns = 0

InitPool ==
  /\ plCpus \in 1..MaxCpus
  /\ plConfig \in Configs
  /\ plPc = "idle"
  /\ plWorkers = 0
  /\ plStarted = TRUE
  /\ plRuns = 0

\* How many of the numWorkers workers the loop constructs: new Worker can
\* throw, and the failure is caught per worker.
Created(n) == {n, n - 1} \cap (0..n)

\* indexAll up to the batch loop: step 3 initializes the workers.
PoolRunStarts(created, ready) ==
  /\ plPc = "idle"
  /\ plRuns < MaxPoolRuns
  /\ created \in Created(numWorkers(plConfig, plCpus))
  /\ plRuns' = plRuns + 1
  /\ plPc' = "running"
  /\ plStarted' = AllStarted(plConfig, plCpus, created, ready)
  /\ plWorkers' =
       IF useWorkers(plCpus)
         THEN initializeWorkers(plWorkers, plConfig, plCpus, created, ready)
         ELSE plWorkers
  /\ UNCHANGED <<plCpus, plConfig, exceptPool, chunkVars, idxVars, wkVars>>

\* The batch loop ends and the run goes on to the cleanup of the workers.
PoolRunCompletes ==
  /\ plPc = "running"
  /\ plPc' = "idle"
  /\ plWorkers' = CleanupWorkers(plWorkers, plCpus)
  /\ UNCHANGED <<plCpus, plConfig, plStarted, plRuns, exceptPool, chunkVars, idxVars, wkVars>>

\* A statement of the batch loop throws (addBatchToStore, saveIncremental):
\* the run leaves through the finally block, which resets isIndexing only.
PoolRunThrows ==
  /\ plPc = "running"
  /\ plPc' = "idle"
  /\ UNCHANGED <<plWorkers, plCpus, plConfig, plStarted, plRuns, exceptPool, chunkVars, idxVars, wkVars>>

NextPool ==
  \/ \E created \in 0..MaxCpus, ready \in BOOLEAN : PoolRunStarts(created, ready)
  \/ PoolRunCompletes
  \/ PoolRunThrows

\* ---------------------------------------------------------------------
\* index.js: ensureInitialized, called by the handler of every tool call and
\* by the auto-index timer.
\* ---------------------------------------------------------------------

MaxToolCalls == 3

\* The callers of ensureInitialized: the tool calls and the auto-index timer.
InitCallers == (1..MaxToolCalls) \cup {0}

AutoIndexTimer == 0

\* The guard that never sees an initialization in progress (a faulty variant).
InProgressNever(promise) == FALSE

\* if (initializationPromise): a promise, pending or settled, is truthy
InProgress(promise) == promise # "null"

LazyIdle ==
  /\ isInitialized = FALSE
  /\ initializationPromise = "null"
  /\ inBody = "off"
  /\ inStarted = 0
  /\ inPc = [c \in InitCallers |-> "off"]

\* The globals of index.js when main() has connected the server.
InitLazy ==
  /\ isInitialized = FALSE
  /\ initializationPromise = "null"
  /\ inBody = "none"
  /\ inStarted = 0
  /\ inPc = [c \in InitCallers |-> "idle"]

\* A tool call arrives, or the auto-index timer fires: ensureInitialized()
\* runs up to its first await.  The check of the two globals and the
\* assignment of initializationPromise have no await between them.
EnsureInitialized(c) ==
  /\ inPc[c] = "idle"
  /\ IF isInitialized
       THEN /\ inPc' = [inPc EXCEPT ![c] = "returned"]
            /\ UNCHANGED <<initializationPromise, inBody, inStarted>>
       ELSE IF InProgress(initializationPromise)
         THEN /\ inPc' = [inPc EXCEPT ![c] = "awaiting"]
              /\ UNCHANGED <<initializationPromise, inBody, inStarted>>
         ELSE /\ initializationPromise' = "pending"
              /\ inBody' = "createEmbedder"
              /\ inStarted' = inStarted + 1
              /\ inPc' = [inPc EXCEPT ![c] = "awaiting"]
  /\ UNCHANGED <<isInitialized, exceptLazy, chunkVars, idxVars, wkVars>>

\* embedder = await createEmbedder(config) settles.
EmbedderLoaded(ok) ==
  /\ inBody = "createEmbedder"
  /\ inBody' = IF ok THEN "cache.load" ELSE "failed"
  /\ initializationPromise' = IF ok THEN initializationPromise ELSE "rejected"
  /\ UNCHANGED <<isInitialized, inStarted, inPc, exceptLazy, chunkVars, idxVars, wkVars>>

\* await cache.load() settles: the feature instances are stored and
\* isInitialized = true ends the body.
CacheLoadSettled(ok) ==
  /\ inBody = "cache.load"
  /\ inBody' = IF ok THEN "done" ELSE "failed"
  /\ isInitialized' = ok
  /\ initializationPromise' = IF ok THEN "fulfilled" ELSE "rejected"
  /\ UNCHANGED <<inStarted, inPc, exceptLazy, chunkVars, idxVars, wkVars>>

\* The await of ensureInitialized() in the caller settles: a tool call goes
\* on to feature.handler(request, feature.instance), the timer to
\* indexer.indexAll(); a rejection ends the tool call with the error and is
\* caught by the timer.
Resumes(c) ==
  /\ \/ inPc[c] = "returned" /\ inPc' = [inPc EXCEPT ![c] = "handler"]
     \/ inPc[c] = "awaiting" /\ initializationPromise = "fulfilled"
          /\ inPc' = [inPc EXCEPT ![c] = "handler"]
     \/ inPc[c] = "awaiting" /\ initializationPromise = "rejected"
          /\ inPc' = [inPc EXCEPT ![c] = "failed"]
  /\ UNCHANGED <<isInitialized, initializationPromise, inBody, inStarted,
                 exceptLazy, chunkVars, idxVars, wkVars>>

\* The handler of the tool, or the run of the timer, returns.
HandlerReturns(c) ==
  /\ inPc[c] = "handler"
  /\ inPc' = [inPc EXCEPT ![c] = "done"]
  /\ UNCHANGED <<isInitialized, initializationPromise, inBody, inStarted,
                 exceptLazy, chunkVars, idxVars, wkVars>>

NextLazy ==
  \/ \E c \in InitCallers : EnsureInitialized(c)
  \/ \E ok \in BOOLEAN : EmbedderLoaded(ok)
  \/ \E ok \in BOOLEAN : CacheLoadSettled(ok)
  \/ \E c \in InitCallers : Resumes(c)
  \/ \E c \in InitCallers : HandlerReturns(c)

LibIdle == StoreIdle /\ MigrateIdle /\ ShutdownIdle /\ ProgressIdle /\ CosineIdle /\ LanguageIdle /\ BatchesIdle /\ PoolIdle /\ LazyIdle

StoreOthersIdle == MigrateIdle /\ ShutdownIdle /\ ProgressIdle /\ CosineIdle /\ LanguageIdle /\ BatchesIdle /\ PoolIdle /\ LazyIdle

MigrateOthersIdle == StoreIdle /\ ShutdownIdle /\ ProgressIdle /\ CosineIdle /\ LanguageIdle /\ BatchesIdle /\ PoolIdle /\ LazyIdle

ShutdownOthersIdle == StoreIdle /\ MigrateIdle /\ ProgressIdle /\ CosineIdle /\ LanguageIdle /\ BatchesIdle /\ PoolIdle /\ LazyIdle

ProgressOthersIdle == StoreIdle /\ MigrateIdle /\ ShutdownIdle /\ CosineIdle /\ LanguageIdle /\ BatchesIdle /\ PoolIdle /\ LazyIdle

CosineOthersIdle == StoreIdle /\ MigrateIdle /\ ShutdownIdle /\ ProgressIdle /\ LanguageIdle /\ BatchesIdle /\ PoolIdle /\ LazyIdle

LanguageOthersIdle ==
  StoreIdle /\ MigrateIdle /\ ShutdownIdle /\ ProgressIdle /\ CosineIdle /\ BatchesIdle /\ PoolIdle /\ LazyIdle

BatchesOthersIdle ==
  StoreIdle /\ MigrateIdle /\ ShutdownIdle /\ ProgressIdle /\ CosineIdle /\ LanguageIdle /\ PoolIdle /\ LazyIdle

PoolOthersIdle ==
  StoreIdle /\ MigrateIdle /\ ShutdownIdle /\ ProgressIdle /\ CosineIdle /\ LanguageIdle /\ BatchesIdle /\ LazyIdle

LazyOthersIdle ==
  StoreIdle /\ MigrateIdle /\ ShutdownIdle /\ ProgressIdle /\ CosineIdle /\ LanguageIdle /\ BatchesIdle /\ PoolIdle

\* The server process after main(): cache and indexer are null.
InitShutdown ==
  /\ sdEnableCache \in BOOLEAN
  /\ sdInit = "start"
  /\ sdWatcher = FALSE
  /\ sdWal = 0
  /\ sdHandler = "none"
  /\ sdSignal = "none"
  /\ sdSaves = 0

\* `cache` is not null
CacheSet == sdInit \in {"loading", "ready"}

\* cache.db is open: cache.load() returned and did not return at once
StoreInitialized == sdInit = "ready" /\ sdEnableCache

\* cache.save(): the WAL checkpoint, unless !config.enableCache || !this.db
save(wal) == IF sdEnableCache /\ StoreInitialized THEN 0 ELSE wal

\* ensureInitialized: the embedder is created, cache = new SQLiteCache(config)
\* and cache.load() is awaited.
EmbedderCreated ==
  /\ sdHandler # "exited"
  /\ sdInit = "start"
  /\ sdInit' = "loading"
  /\ UNCHANGED <<sdEnableCache, sdWatcher, sdWal, sdHandler, sdSignal, sdSaves,
                 exceptShutdown, chunkVars, idxVars, wkVars>>

\* ensureInitialized: cache.load() returned, the indexer is built.
CacheLoaded ==
  /\ sdHandler # "exited"
  /\ sdInit = "loading"
  /\ sdInit' = "ready"
  /\ UNCHANGED <<sdEnableCache, sdWatcher, sdWal, sdHandler, sdSignal, sdSaves,
                 exceptShutdown, chunkVars, idxVars, wkVars>>

\* indexer.setupFileWatcher()
WatcherSetUp ==
  /\ sdHandler # "exited"
  /\ sdInit = "ready"
  /\ ~sdWatcher
  /\ sdWatcher' = TRUE
  /\ UNCHANGED <<sdEnableCache, sdInit, sdWal, sdHandler, sdSignal, sdSaves,
                 exceptShutdown, chunkVars, idxVars, wkVars>>

\* The indexer or a watch handler writes to the store.
StoreWritten ==
  /\ sdHandler # "exited"
  /\ StoreInitialized
  /\ sdWal < MaxWal
  /\ sdWal' = sdWal + 1
  /\ UNCHANGED <<sdEnableCache, sdInit, sdWatcher, sdHandler, sdSignal, sdSaves,
                 exceptShutdown, chunkVars, idxVars, wkVars>>

\* The save step of the SIGINT handler: if (cache) await cache.save().
SigintSave ==
  /\ sdWal' = IF CacheSet THEN save(sdWal) ELSE sdWal
  /\ sdSaves' = IF CacheSet THEN sdSaves + 1 ELSE sdSaves
  /\ sdHandler' = "saved"

\* SIGINT: the handler runs up to its first await.
Sigint ==
  /\ sdHandler = "none"
  /\ IF sdInit = "ready" /\ sdWatcher
       THEN sdHandler' = "closing" /\ UNCHANGED <<sdWal, sdSaves>>
       ELSE SigintSave
  /\ UNCHANGED <<sdEnableCache, sdInit, sdWatcher, sdSignal,
                 exceptShutdown, chunkVars, idxVars, wkVars>>

\* indexer.watcher.close() resolved: the SIGINT handler goes on to the save.
WatcherClosed ==
  /\ sdHandler = "closing"
  /\ SigintSave
  /\ UNCHANGED <<sdEnableCache, sdInit, sdWatcher, sdSignal,
                 exceptShutdown, chunkVars, idxVars, wkVars>>

\* cache.save() resolved: the SIGINT handler calls process.exit(0).
SigintExit ==
  /\ sdHandler = "saved"
  /\ sdHandler' = "exited"
  /\ sdSignal' = "SIGINT"
  /\ UNCHANGED <<sdEnableCache, sdInit, sdWatcher, sdWal, sdSaves,
                 exceptShutdown, chunkVars, idxVars, wkVars>>

\* SIGTERM: the handler calls process.exit(0).
Sigterm ==
  /\ sdHandler # "exited"
  /\ sdHandler' = "exited"
  /\ sdSignal' = "SIGTERM"
  /\ UNCHANGED <<sdEnableCache, sdInit, sdWatcher, sdWal, sdSaves,
                 exceptShutdown, chunkVars, idxVars, wkVars>>

NextShutdown ==
  \/ EmbedderCreated
  \/ CacheLoaded
  \/ WatcherSetUp
  \/ StoreWritten
  \/ Sigint
  \/ WatcherClosed
  \/ SigintExit
  \/ Sigterm

\* A cache directory before the first load of the SQLite store: the legacy
\* pair may be there, whole or in part.
InitMigrate ==
  /\ mgPc = "down"
  /\ mgJson \in [cache : {"present", "absent"}, hashes : {"present", "absent"}]
  /\ mgLegacy \in 0..MaxLegacy
  /\ mgRows = <<>>
  /\ mgHashes = FALSE
  /\ mgImports = 0
  /\ mgLoads = 0

\* checkJSONCache: fs.access(embeddings.json)
checkJSONCache(json) == json.cache = "present"

\* getVectorCount: SELECT COUNT(*) FROM embeddings
getVectorCount(rows) == Len(rows)

\* The outcomes of the fallible steps of one load: both readFile calls gave
\* a non-empty text, the transaction committed, each rename succeeded.
LoadOutcomes == [read : BOOLEAN, transaction : BOOLEAN, rename1 : BOOLEAN, rename2 : BOOLEAN]

\* migrateFromJSON: the files, the tables and whether it threw.
migrateFromJSON(json, legacy, rows, hashes, o) ==
  LET cacheData == json.cache = "present" /\ o.read
      hashData == json.hashes = "present" /\ o.read
      same == [json |-> json, rows |-> rows, hashes |-> hashes, imported |-> FALSE]
      done == [json |-> json, rows |-> rows \o [k \in 1..legacy |-> "legacy"],
               hashes |-> TRUE, imported |-> legacy > 0]
  IN  IF ~cacheData \/ ~hashData THEN same @@ [threw |-> FALSE]
      ELSE IF ~o.transaction THEN same @@ [threw |-> TRUE]
      ELSE IF ~o.rename1 THEN done @@ [threw |-> TRUE]
      ELSE IF ~o.rename2
        THEN [done EXCEPT !.json.cache = "backup"] @@ [threw |-> TRUE]
      ELSE [done EXCEPT !.json = [cache |-> "backup", hashes |-> "backup"]]
             @@ [threw |-> FALSE]

\* cache.load() at the start of the server; when it throws the server does
\* not come up.
Load(o) ==
  /\ mgPc = "down"
  /\ mgLoads < MaxLoads
  /\ mgLoads' = mgLoads + 1
  /\ IF checkJSONCache(mgJson) /\ getVectorCount(mgRows) = 0
       THEN LET r == migrateFromJSON(mgJson, mgLegacy, mgRows, mgHashes, o)
            IN  /\ mgJson' = r.json
                /\ mgRows' = r.rows
                /\ mgHashes' = r.hashes
                /\ mgImports' = IF r.imported THEN mgImports + 1 ELSE mgImports
                /\ mgPc' = IF r.threw THEN "down" ELSE "up"
       ELSE /\ mgPc' = "up"
            /\ UNCHANGED <<mgJson, mgRows, mgHashes, mgImports>>
  /\ UNCHANGED <<mgLegacy, exceptMigrate, chunkVars, idxVars, wkVars>>

\* The running server adds the chunks of a file to the store.
IndexSome ==
  /\ mgPc = "up"
  /\ Len(mgRows) < MaxRows
  /\ mgRows' = Append(mgRows, "new")
  /\ UNCHANGED <<mgPc, mgJson, mgLegacy, mgHashes, mgImports, mgLoads,
                 exceptMigrate, chunkVars, idxVars, wkVars>>

\* The running server starts a forced indexAll: setVectorStore([]).
ForceClear ==
  /\ mgPc = "up"
  /\ mgRows' = setVectorStore(mgRows, <<>>)
  /\ UNCHANGED <<mgPc, mgJson, mgLegacy, mgHashes, mgImports, mgLoads,
                 exceptMigrate, chunkVars, idxVars, wkVars>>

\* The server process ends.
Exit ==
  /\ mgPc = "up"
  /\ mgPc' = "down"
  /\ UNCHANGED <<mgJson, mgLegacy, mgRows, mgHashes, mgImports, mgLoads,
                 exceptMigrate, chunkVars, idxVars, wkVars>>

NextMigrate ==
  \/ \E o \in LoadOutcomes : Load(o)
  \/ IndexSome
  \/ ForceClear
  \/ Exit

InitStore ==
  stPc = "idle" /\ stRows = <<>> /\ stArg = <<>> /\ stPrev = <<>> /\ stCalls = 0

\* cache.addBatchToStore(chunks)
AddBatchToStore(chunks) ==
  /\ stCalls < MaxStoreCalls
  /\ Len(chunks) > 0
  /\ LET r == runInsertTransaction(stRows, chunks)
     IN  /\ stRows' = r.rows
         /\ stPc' = IF r.threw THEN "add-threw" ELSE "add-returned"
  /\ stArg' = chunks
  /\ stPrev' = stRows
  /\ stCalls' = stCalls + 1
  /\ UNCHANGED <<exceptStore, chunkVars, idxVars, wkVars>>

\* cache.setVectorStore(store): DELETE FROM embeddings, then addBatchToStore
\* when the store is not empty.
SetVectorStore(store) ==
  /\ stCalls < MaxStoreCalls
  /\ LET r == IF Len(store) > 0
                THEN runInsertTransaction(deleteAllRows(stRows), store)
                ELSE [threw |-> FALSE, rows |-> deleteAllRows(stRows)]
     IN  /\ stRows' = r.rows
         /\ stPc' = IF r.threw THEN "set-threw" ELSE "set-returned"
  /\ stArg' = store
  /\ stPrev' = stRows
  /\ stCalls' = stCalls + 1
  /\ UNCHANGED <<exceptStore, chunkVars, idxVars, wkVars>>

NextStore ==
  \/ \E chunks \in StoreArgs : AddBatchToStore(chunks)
  \/ \E store \in StoreArgs : SetVectorStore(store)

\* The indexer: indexAll calls, edits of the workspace and watch handlers.
Init == InitIdx /\ ChunkIdle /\ WorkersIdle /\ LibIdle

Spec == Init /\ [][Next]_vars

\* A chunker run on one text.
InitSpecChunk == InitChunk /\ IdxIdle /\ WorkersIdle /\ LibIdle

SpecChunk == InitSpecChunk /\ [][NextChunk]_vars

\* One call of processChunksWithWorkers.
InitSpecWorkers == InitWorkers /\ IdxIdle /\ ChunkIdle /\ LibIdle

SpecWorkers == InitSpecWorkers /\ [][NextWorkers]_vars

\* Calls of the store's bulk operations.
InitSpecStore == InitStore /\ StoreOthersIdle /\ IdxIdle /\ ChunkIdle /\ WorkersIdle

SpecStore == InitSpecStore /\ [][NextStore]_vars

\* The loads of the store over the life of a cache directory.
InitSpecMigrate == InitMigrate /\ MigrateOthersIdle /\ IdxIdle /\ ChunkIdle /\ WorkersIdle

SpecMigrate == InitSpecMigrate /\ [][NextMigrate]_vars

\* The server process from its start to its exit on a signal.
InitSpecShutdown ==
  InitShutdown /\ ShutdownOthersIdle /\ IdxIdle /\ ChunkIdle /\ WorkersIdle

SpecShutdown == InitSpecShutdown /\ [][NextShutdown]_vars

\* Two indexAll runs on the same inputs, with and without a progress listener.
InitSpecProgress ==
  InitProgress /\ ProgressOthersIdle /\ IdxIdle /\ ChunkIdle /\ WorkersIdle

SpecProgress == InitSpecProgress /\ [][NextProgress]_vars

\* cosineSimilarity on a pair of vectors.
InitSpecCosine ==
  InitCosine /\ CosineOthersIdle /\ IdxIdle /\ ChunkIdle /\ WorkersIdle

SpecCosine == InitSpecCosine /\ [][NextCosine]_vars

\* A step of the run of caller c: an await of indexAll resolved or rejected.
IndexAllStep(c) ==
  \/ DiscoveredNone(c)
  \/ DiscoveredPruneThrows(c)
  \/ Discovered(c)
  \/ ProcessFile(c)
  \/ \E ok \in BOOLEAN : EmbedChunk(c, ok)
  \/ Saved(c)

\* The workspaces of the runs below: empty; a file of two chunks next to an
\* unreadable one; a file too short for a chunk next to a file of one chunk.
RunDisks ==
  { [f \in Files |-> Absent],
    [f \in Files |-> IF f = "a.js" THEN Readable(<<"W", "\n", "W", "\n", "W">>)
                                   ELSE Unreadable],
    [f \in Files |-> IF f = "a.js" THEN Readable(<<"W">>)
                                   ELSE Readable(<<"W", " ", "W">>)] }

\* indexAll calls on a workspace that is not edited, before the watcher is
\* installed.
InitRuns == Init /\ disk \in RunDisks

NextRuns ==
  \/ \E c \in Calls, force \in BOOLEAN : Start(c, force)
  \/ \E c \in Calls : IndexAllStep(c)

\* Every await of a run settles: discoverFiles, the file reads, the embedder
\* calls of processChunksSingleThreaded and cache.save() resolve or reject.
SpecRunsFair ==
  /\ InitRuns
  /\ [][NextRuns]_vars
  /\ \A c \in Calls : WF_vars(IndexAllStep(c))

\* Calls of getLanguageForFile.
InitSpecLanguage ==
  InitLanguage /\ LanguageOthersIdle /\ IdxIdle /\ ChunkIdle /\ WorkersIdle

SpecLanguage == InitSpecLanguage /\ [][NextLanguage]_vars

\* The batches posted to one worker.
InitSpecBatches ==
  InitBatches /\ BatchesOthersIdle /\ IdxIdle /\ ChunkIdle /\ WorkersIdle

SpecBatches == InitSpecBatches /\ [][NextBatches]_vars

InitSpecLazy ==
  InitLazy /\ LazyOthersIdle /\ IdxIdle /\ ChunkIdle /\ WorkersIdle

\* The lazy initialization under concurrent tool calls and the timer.
SpecLazy == InitSpecLazy /\ [][NextLazy]_vars

InitSpecPool ==
  InitPool /\ PoolOthersIdle /\ IdxIdle /\ ChunkIdle /\ WorkersIdle

\* The worker pool over the runs of indexAll.
SpecPool == InitSpecPool /\ [][NextPool]_vars

\* The same with time passing and every armed timeout firing once
\* WORKER_TIMEOUT has expired, as the event loop runs them.
SpecBatchesFair ==
  /\ SpecBatches
  /\ WF_vars(BtTick)
  /\ \A b \in 1..MaxBatches : WF_vars(BtTimeout(b))

\* C10: every span returned by smartChunk or by ASTChunker.chunk lies within
\* the lines of the content (1 <= startLine <= endLine <= number of lines) and
\* its text is lines startLine..endLine of the content joined by newlines.
C10_SpanRoundTrip ==
  ckPc \in {"smart", "ast"} =>
    \A k \in 1..Len(ckSpans) :
      LET c == ckSpans[k]
          lines == Split(ckContent)
      IN  /\ 1 <= c.startLine
          /\ c.startLine <= c.endLine
          /\ c.endLine <= Len(lines)
          /\ c.text = Join(SubSeq(lines, c.startLine, c.endLine))

\* ASTChunker.chunk has returned one span made of two semantic nodes, the
\* second overlapping the first and ending after it: the first span was
\* extended and its text sliced again.
C10_Witness ==
  /\ ckPc = "ast"
  /\ Len(ckEnv.nodes) = 2
  /\ ckEnv.nodes[1].semantic /\ ckEnv.nodes[2].semantic
  /\ ckEnv.nodes[1].endRow - ckEnv.nodes[1].startRow >= 2
  /\ ckEnv.nodes[2].endRow - ckEnv.nodes[2].startRow >= 2
  /\ ckEnv.nodes[2].startRow <= ckEnv.nodes[1].endRow
  /\ ckEnv.nodes[2].endRow > ckEnv.nodes[1].endRow
  /\ Len(ckSpans) = 1
  /\ ckSpans[1].startLine = ckEnv.nodes[1].startRow + 1
  /\ ckSpans[1].endLine = ckEnv.nodes[2].endRow + 1

\* ------------------------------------------------------------- properties

Body == {"discover", "file", "embed", "save"}

\* No watch event is pending and no handler is running.
WatcherQuiet == events = <<>> /\ \A h \in Handlers : hs[h].pc = "idle"

\* The key (file, startLine) of a row or of a chunk entry.
KeyOf(x) == <<x.file, x.startLine>>

\* C1: at most one indexAll run executes its body at any time, and a call made
\* while a run is active returns skipped = true at once: the active run is
\* neither waited for nor cancelled (its position and its locals are untouched,
\* the guard stays set) and the call changes nothing in the store.
C1_MutualExclusion ==
  [][ /\ Cardinality({c \in Calls : pc'[c] \in Body}) <= 1
      /\ (calls' = calls + 1 /\ \E d \in Calls : pc[d] \in Body) =>
           /\ isIndexing'
           /\ \E c \in Calls :
                /\ pc[c] \notin Body
                /\ outcome'[c] = "skipped"
                /\ pc'[c] = "done"
                /\ \A d \in Calls \ {c} :
                     pc'[d] = pc[d] /\ run'[d] = run[d] /\ outcome'[d] = outcome[d]
           /\ UNCHANGED storeVars ]_vars

\* A call was skipped while the run of the other caller is in its body.
C1_Witness ==
  \E c, d \in Calls : outcome[c] = "skipped" /\ pc[c] = "done" /\ pc[d] = "embed"

\* C2: in a non-force run, when the file read has the content whose hash is
\* stored, the step chunks nothing, removes and inserts no row of the file and
\* leaves its hash; the file is never among the chunked or embedded files of
\* the run and the run writes no row for it.
C2_UnchangedIsSkipped ==
  [][ \A c \in Calls :
        /\ (pc[c] = "file" /\ run'[c] # run[c] /\ ~run[c].force) =>
             LET file == run[c].files[run[c].i + run[c].j + 1]
             IN  (disk[file].state = "ok"
                  /\ fileHashes[file] = hashContent(disk[file].content)) =>
                    /\ RowsOfFile(embeddings', file) = RowsOfFile(embeddings, file)
                    /\ fileHashes'[file] = fileHashes[file]
                    /\ run'[c].entries = run[c].entries
                    /\ run'[c].chunked = run[c].chunked
                    /\ file \in run'[c].unchanged
        /\ ~run'[c].force =>
             \A file \in run'[c].unchanged :
               /\ file \notin run'[c].chunked \cup run'[c].embedded
               /\ \A x \in run'[c].written : x.file # file ]_vars

\* A non-force run skipped an unchanged file that has rows in the store, and
\* chunked and wrote another one.
C2_Witness ==
  \E c \in Calls :
    /\ ~run[c].force
    /\ pc[c] = "save"
    /\ \E f \in run[c].unchanged : RowsOfFile(embeddings, f) # <<>>
    /\ run[c].written # {}

\* C3: when a changed file has been re-indexed with every embedding
\* succeeding, by a watch handler or by an indexAll run, the rows stored for the
\* file are exactly the chunks of the content that was read.
C3_ReindexReplaces ==
  [][ /\ \A h \in Handlers :
           (hs[h].pc = "embed" /\ hs'[h].pc = "idle" /\ hs[h].allOk
            /\ failures' = failures) =>
              RowsOfFile(embeddings', hs[h].file) = RowsOfChunks(hs[h].file, hs[h].chunks)
      /\ \A c \in Calls :
           (pc[c] = "embed" /\ pc'[c] # "embed") =>
              \A n \in 1..Len(run[c].fileHashes) :
                LET file == run[c].fileHashes[n][1]
                IN  (\A key \in run'[c].failed : key[1] # file) =>
                       RowsOfFile(embeddings', file) =
                         RowsOfChunks(file, SelectSeq(run[c].allChunks,
                                                      LAMBDA x : x.file = file)) ]_vars

\* No embedding has failed, no watch handler runs and no event is pending; the
\* hash stored for a file is the hash of its content on disk, and a row stored
\* for it is not a chunk of that content: a stale span.
C3_Witness ==
  /\ WatcherQuiet
  /\ failures = 0
  /\ \E f \in Files :
       /\ disk[f].state = "ok"
       /\ fileHashes[f] = hashContent(disk[f].content)
       /\ \E n \in 1..Len(embeddings) :
            /\ embeddings[n].file = f
            /\ embeddings[n] \notin Range(RowsOfChunks(f, smartChunk(disk[f].content)))

\* C4: when a non-force run has passed discovery and no watch event is pending
\* or being handled, no row and no hash is left for a file that is not in its
\* discovery set.
C4_PrunedAfterDiscovery ==
  [][ \A c \in Calls :
        (pc[c] = "discover" /\ pc'[c] # "discover" /\ ~run[c].force /\ WatcherQuiet) =>
           \A f \in Files :
             disk[f] = Absent =>
               RowsOfFile(embeddings', f) = <<>> /\ fileHashes'[f] = NoHash ]_vars

\* A non-force run has visited every file it discovered and reached
\* cache.save(); a file deleted before the run started, with no watch event
\* pending, still has its rows and its hash in the store.
C4_Witness ==
  \E c \in Calls :
    /\ pc[c] = "save"
    /\ ~run[c].force
    /\ WatcherQuiet /\ ~watcherOn
    /\ \E f \in Files :
         /\ f \notin Range(run[c].files)
         /\ disk[f] = Absent
         /\ RowsOfFile(embeddings, f) # <<>>
         /\ fileHashes[f] # NoHash

\* C5: when a forced run ends, every readable file it discovered was chunked
\* in that run, and the hashes were cleared when it started.
C5_ForceReindexesAll ==
  [][ \A c \in Calls :
        /\ (pc[c] \notin Body /\ pc'[c] = "discover" /\ run'[c].force) =>
              embeddings' = <<>> /\ fileHashes' = [f \in Files |-> NoHash]
        /\ (pc[c] = "file" /\ run'[c] # run[c] /\ run[c].force) =>
              LET file == run[c].files[run[c].i + run[c].j + 1]
              IN  disk[file].state = "ok" => file \in run'[c].chunked ]_vars

\* A forced run reached cache.save() having skipped a readable file as
\* unchanged: the store holds no row of that file.
C5_Witness ==
  \E c \in Calls :
    /\ pc[c] = "save"
    /\ run[c].force
    /\ ~watcherOn
    /\ \E f \in run[c].unchanged :
         /\ disk[f].state = "ok"
         /\ smartChunk(disk[f].content) # <<>>
         /\ RowsOfFile(embeddings, f) = <<>>

\* C6: a call that entered the body of indexAll never ends rejected: it
\* resolves with its result.
C6_ResolvesWithResult ==
  \A c \in Calls : pc[c] = "done" => outcome[c] \in {"skipped", "resolved"}

\* A run that met no error at all (no file skipped for an error, no chunk
\* failed) wrote its rows, awaited cache.save() and ended rejected.
C6_Witness ==
  \E c \in Calls :
    /\ pc[c] = "done"
    /\ outcome[c] = "rejected"
    /\ run[c].batchCounter > 0
    /\ run[c].written # {}
    /\ run[c].failed = {} /\ run[c].skipped = {}
    /\ failures = 0 /\ edits = 0

\* C7: whatever slices time out, crash or reply with an error, the results
\* returned by processChunksWithWorkers hold exactly one result per input
\* chunk, none missing and none twice, and the chunks of every slice that gave
\* no results were embedded one at a time by processChunksSingleThreaded.
C7_OneResultPerChunk ==
  wkPc = "returned" =>
    /\ Len(wkResults) = Len(wkChunks)
    /\ \A chunk \in Range(wkChunks) :
         Cardinality({n \in 1..Len(wkResults) : wkResults[n].chunk = chunk}) = 1
    /\ \A n \in 1..Len(wkSlices) :
         wkSlices[n].how \in {"timeout", "crash", "error"} =>
           \A chunk \in Range(wkSlices[n].chunks) :
             \E m \in 1..Len(wkResults) :
               wkResults[m].chunk = chunk /\ wkResults[m].by = "fallback"

\* The call returned after one slice timed out, one worker crashed and one
\* replied with its results; the last slice is shorter than the others.
C7_Witness ==
  /\ wkPc = "returned"
  /\ Len(wkSlices) = 3
  /\ wkSlices[1].how = "timeout"
  /\ wkSlices[2].how = "crash"
  /\ wkSlices[3].how = "results"
  /\ Len(wkSlices[1].chunks) > Len(wkSlices[3].chunks)

\* C8: a chunk whose embedding failed is never among the rows the run wrote,
\* and the run goes on: when it reaches cache.save(), every chunk entry it made
\* was either written or failed, and every file was visited.
C8_FailedChunkExcluded ==
  \A c \in Calls :
    /\ \A x \in run[c].written : KeyOf(x) \notin run[c].failed
    /\ pc[c] = "save" =>
         /\ run[c].entries = run[c].failed \cup {KeyOf(x) : x \in run[c].written}
         /\ Range(run[c].files) = run[c].skipped \cup run[c].unchanged \cup run[c].chunked

\* A run with one file per batch reached cache.save() after a chunk of the
\* first file failed: the other chunk of that file and the chunks of the next
\* batch were written.
C8_Witness ==
  \E c \in Calls :
    /\ pc[c] = "save"
    /\ batchSize = 1
    /\ \E key \in run[c].failed :
         /\ key[1] = "a.js"
         /\ \E x \in run[c].written : x.file = "a.js"
         /\ \E x \in run[c].written : x.file = "b.py"

\* C9: reading a file that is absent, unreadable or oversized only skips and
\* counts it: the run is not ended by it, and when the run reaches cache.save()
\* every discovered file was visited and the skipped ones were counted.
C9_BadFileSkipped ==
  [][ \A c \in Calls :
        /\ (pc[c] = "file" /\ (run'[c] # run[c] \/ pc'[c] # pc[c])) =>
             LET file == run[c].files[run[c].i + run[c].j + 1]
             IN  disk[file].state # "ok" =>
                   /\ pc'[c] \in {"file", "embed", "save"}
                   /\ isIndexing'
                   /\ outcome'[c] = outcome[c]
                   /\ run'[c].skippedFiles = run[c].skippedFiles + 1
                   /\ file \in run'[c].skipped
        /\ pc'[c] = "save" =>
             /\ Range(run'[c].files) =
                  run'[c].skipped \cup run'[c].unchanged \cup run'[c].chunked
             /\ run'[c].skippedFiles =
                  Cardinality(run'[c].skipped) + Cardinality(run'[c].unchanged) ]_vars

\* A run reached cache.save() having skipped the first file, which could not
\* be read or was oversized, and written the rows of the second one.
C9_Witness ==
  \E c \in Calls :
    /\ pc[c] = "save"
    /\ "a.js" \in run[c].skipped
    /\ \E x \in run[c].written : x.file = "b.py"

\* The calls of ASTChunker.chunk in which one of the steps before the merge
\* failed or found nothing: Parser.init rejected, the extension has no
\* language, no grammar was found, the parse threw, or no semantic node gave a
\* chunk.
AstCouldNotChunk ==
  /\ ckPc \in {"ast", "threw"}
  /\ \/ ckEnv \in AstFailures
     \/ Len(walkTree(ckEnv.nodes, Split(ckContent), <<>>)) = 0

\* C11: ASTChunker.chunk never fails: whenever initialization, the language
\* lookup, the grammar, the parse or the search for semantic nodes fails, the
\* call returns smartChunk(content) instead of raising an error.
C11_AlwaysFallsBack ==
  AstCouldNotChunk => (ckPc = "ast" /\ ckSpans = smartChunk(ckContent))

\* A call of ASTChunker.chunk on a content smartChunk would chunk ended with
\* the error of Parser.init.
C11_Witness ==
  /\ ckPc = "threw"
  /\ ~ckEnv.initOk
  /\ Len(smartChunk(ckContent)) > 0

\* The text and the lines of each chunk, without the fields that only one of
\* the chunkers sets (tokenCount, nodeType).
TextSpans(chunks) ==
  [k \in 1..Len(chunks) |->
     [text |-> chunks[k].text, startLine |-> chunks[k].startLine,
      endLine |-> chunks[k].endLine]]

\* Plain windows of config.chunkSize lines over the whole content.
lineChunk(content) ==
  SplitLargeLoop(Split(content), 0, Len(Split(content)) - 1, <<>>)

\* The chunks of the strategy that config.chunkingMode names.
SelectedStrategy(mode, content, env) ==
  IF mode = "ast" THEN astChunk(content, env).chunks
  ELSE IF mode = "line" THEN lineChunk(content)
  ELSE smartChunk(content)

\* C12: the chunks the indexer makes of a file are those of the strategy
\* config.chunkingMode selects: smartChunk for 'smart', ASTChunker.chunk (with
\* its fallback) for 'ast', fixed windows of lines for 'line'.
C12_ModeSelectsStrategy ==
  ckPc = "indexed" =>
    TextSpans(ckSpans) = TextSpans(SelectedStrategy(ckMode, ckContent, ckEnv))

\* The indexer chunked a file in mode 'ast' while the parser was ready and
\* gave a tree with semantic chunks: the chunks it made are those of
\* smartChunk, not those of ASTChunker.chunk.
C12_Witness ==
  /\ ckPc = "indexed"
  /\ ckMode = "ast"
  /\ ckEnv \notin AstFailures
  /\ Len(walkTree(ckEnv.nodes, Split(ckContent), <<>>)) > 0
  /\ TextSpans(ckSpans) = TextSpans(smartChunk(ckContent))
  /\ TextSpans(ckSpans) # TextSpans(astChunk(ckContent, ckEnv).chunks)

\* C13: setVectorStore(store) is an atomic full replace: when it returns, the
\* table holds exactly the given chunks, and when it throws, the table holds
\* what it held before the call.
C13_AtomicReplace ==
  /\ stPc = "set-returned" => stRows = stArg
  /\ stPc = "set-threw" => stRows = stPrev

\* setVectorStore threw on the second of two chunks while the table held a
\* row: the table is left empty.
C13_Witness ==
  /\ stPc = "set-threw"
  /\ Len(stArg) = 2
  /\ ~InsertThrows(stArg[1])
  /\ Len(stPrev) > 0
  /\ stRows = <<>>

\* C14: the legacy migration is one-time and non-destructive: the legacy files
\* are only ever renamed to a .backup name, never deleted, and over all the
\* loads of the store, failing ones included, the legacy chunks are inserted
\* into the store at most once.
C14_MigratesOnce ==
  /\ mgPc # "off" => (mgJson.cache # "absent" \/ mgImports = 0)
  /\ mgImports <= 1

\* A load found embeddings.json still present, because an earlier rename
\* failed, and the store empty again: the legacy chunks were inserted a second
\* time.
C14_Witness ==
  /\ mgImports = 2
  /\ mgPc = "up"
  /\ mgJson = [cache |-> "backup", hashes |-> "backup"]

\* C15: when the process exits on SIGINT or SIGTERM and the store has been
\* initialized, a shutdown handler has called cache.save() before the exit.
C15_SaveBeforeExit ==
  (sdHandler = "exited" /\ StoreInitialized) => sdSaves > 0

\* The process exited on SIGTERM with an initialized store holding writes that
\* no checkpoint covers, and cache.save() was not called.
C15_Witness ==
  /\ sdHandler = "exited"
  /\ sdSignal = "SIGTERM"
  /\ StoreInitialized
  /\ sdWal > 0
  /\ sdSaves = 0

\* What can be seen of an indexAll run apart from its notifications.
Observed(r) ==
  [pc |-> r.pc, store |-> r.store, tried |-> r.tried, outcome |-> r.outcome,
   filesProcessed |-> r.filesProcessed, processedFiles |-> r.processedFiles,
   skippedFiles |-> r.skippedFiles]

\* C16: progress notification does not influence indexing: at every step the
\* run of the indexer with a server, whether its notifications are delivered
\* or fail, has written the same files, produced the same result and stands at
\* the same place as the run without a server; no error comes from sendProgress.
C16_ProgressDoesNotInterfere ==
  /\ Observed(pgWith) = Observed(pgWithout)
  /\ pgWith.tried # "rejected"

\* Both runs are over after more than one batch, the server of the first one
\* threw at every notification, and the second one had no server.
C16_Witness ==
  /\ pgWith.pc = "done"
  /\ pgWithout.pc = "done"
  /\ pgServer = "throws"
  /\ pgFiles > pgBatch
  /\ Cardinality(pgWith.store) > 1
  /\ pgWith.sent = <<>>

\* The vector has zero norm: all its components are zero.
ZeroNorm(v) == SumProducts(v, v, 1) = 0

\* C17: the score of a query vector and a stored vector is 0, not NaN, when
\* either of them has zero norm; NaN is never a score.
C17_ZeroNormScoresZero ==
  csPc = "scored" =>
    /\ ~csScore.nan
    /\ (ZeroNorm(csA) \/ ZeroNorm(csB)) => csScore.num = 0

\* cosineSimilarity returned NaN for a stored vector of zero norm and a query
\* vector that is not zero.
C17_Witness ==
  /\ csPc = "scored"
  /\ ZeroNorm(csB)
  /\ ~ZeroNorm(csA)
  /\ csScore.nan

\* The value indexAll gives indexingStatus when a run starts.
ResetStatus ==
  [inProgress |-> TRUE, totalFiles |-> 0, processedFiles |-> 0, percentage |-> 0]

\* C18: indexingStatus is reset when a run that is not skipped starts, and
\* finalized when it is over: while no run is active (isIndexing false),
\* indexingStatus.inProgress is false, however the last run ended.
C18_StatusFinalized ==
  /\ \A c \in Calls : pc[c] = "discover" => indexingStatus = ResetStatus
  /\ ~isIndexing => ~indexingStatus.inProgress

\* A run found no file to index and is over: the guard is released and
\* indexingStatus still says a run is in progress.
C18_Witness ==
  /\ ~isIndexing
  /\ indexingStatus.inProgress
  /\ \E c \in Calls : pc[c] = "done" /\ run[c].files = <<>> /\ run[c].force

C20_GetChunkerByMode ==
  ckPc # "off" =>
    /\ ckAst <=> (ckMode = "ast")
    /\ ckPc \in {"ast", "threw"} => ckMode = "ast"
    /\ ckPc = "wrapper" => (ckMode # "ast" /\ ckSpans = smartChunk(ckContent))

\* The wrapper returned for mode 'line' chunked a content into more than one
\* chunk.
C20_Witness ==
  /\ ckPc = "wrapper"
  /\ ckMode = "line"
  /\ ~ckAst
  /\ Len(ckSpans) > 1

\* The extension of a file name as the map keys spell it.
ExtensionOf(file) == toLowerCase(SliceOne(extname(file)))

\* C21: getLanguageForFile returns the grammar LANGUAGE_MAP gives for the
\* lower-cased extension of the file, and null for every file whose
\* extension is not a key of the map.
C21_GrammarByExtension ==
  lgPc = "returned" =>
    IF ExtensionOf(lgFile) \in DOMAIN LANGUAGE_MAP
      THEN lgResult = LANGUAGE_MAP[ExtensionOf(lgFile)]
      ELSE lgResult = Null

\* An upper-case extension of the map was resolved to its grammar.
C21_Witness ==
  /\ lgPc = "returned"
  /\ lgFile = <<"t", ".", "J", "S">>
  /\ lgResult = "javascript"

\* C21, for the extensions the map owns and those no object has: the part of
\* the statement that holds.
C21_OwnKeysAndUnknown ==
  lgPc = "returned" /\ ExtensionOf(lgFile) \notin DOMAIN ObjectPrototype =>
    lgResult = LookupOwn(ExtensionOf(lgFile))

\* The hash recorded for a file is backed by the store: the rows of the file
\* hold every chunk of the content that has this hash.
HashBacked(rows, hashes, file) ==
  hashes[file] # NoHash =>
    \E content \in Contents :
      /\ hashes[file] = hashContent(content)
      /\ Range(RowsOfChunks(file, smartChunk(content))) \subseteq Range(RowsOfFile(rows, file))

\* C22: a crash at any point of a batch leaves no file with a hash recorded
\* while its chunks are not persisted: no step of a non-force indexAll run in
\* which no embedding has failed, taken while no watch handler runs, leads
\* from a store where the hash of a file is backed by its rows to one where it
\* is not.
C22_HashOnlyWithChunks ==
  [][ \A c \in Calls :
        (/\ pc[c] \in Body
         /\ run'[c] # run[c]
         /\ ~run[c].force
         /\ run'[c].failed = {}
         /\ WatcherQuiet) =>
           \A f \in Files :
             HashBacked(embeddings, fileHashes, f) => HashBacked(embeddings', fileHashes', f) ]_vars

\* A non-force run without failed embeddings has written a batch and then
\* recorded the hash of a file whose rows are in the store.
C22_Witness ==
  \E c \in Calls :
    /\ ~run[c].force
    /\ run[c].failed = {}
    /\ pc[c] = "save"
    /\ \E f \in Files :
         /\ disk[f].state = "ok"
         /\ fileHashes[f] = hashContent(disk[f].content)
         /\ \E x \in run[c].written : x.file = f
         /\ RowsOfFile(embeddings, f) # <<>>
         /\ HashBacked(embeddings, fileHashes, f)

\* A step of a watch handler: an event is taken from the watcher or a handler
\* moves on.
HandlerStep == hs' # hs \/ Len(events') < Len(events)

\* C23: watch handlers and indexAll go through one single-writer path: while
\* an indexAll run is in its body no step of a watch handler changes the rows
\* or the hashes of the store, and two handlers are never both between the
\* removal of the old rows and the hash update of the same file.
C23_SingleWriter ==
  [][ /\ (HandlerStep /\ \E c \in Calls : pc[c] \in Body) =>
           embeddings' = embeddings /\ fileHashes' = fileHashes
      /\ \A g, h \in Handlers :
           (g # h /\ hs'[g].pc = "embed" /\ hs'[h].pc = "embed") =>
              hs'[g].file # hs'[h].file ]_vars

\* An indexAll run is between its file step and its write while a watch
\* handler, having removed the rows of its file, inserts them one by one.
C23_Witness ==
  \E c \in Calls, h \in Handlers :
    /\ pc[c] = "embed"
    /\ hs[h].pc = "embed"
    /\ hs[h].k > 0

\* The key of the statement of C24.
SpanOf(row) == <<row.file, row.startLine, row.endLine>>

\* No indexAll run is in its body, no watch event is pending or being handled.
AllFinished == WatcherQuiet /\ \A c \in Calls : pc[c] \notin Body

DuplicateRows(rows) ==
  \E m, n \in 1..Len(rows) : m # n /\ SpanOf(rows[m]) = SpanOf(rows[n])

\* C24: once all in-flight operations have finished, the store never holds
\* two chunk rows with the same (file, startLine, endLine).
C24_NoDuplicateSpans == AllFinished => ~DuplicateRows(embeddings)

\* With the watcher installed and files edited, runs and handlers have
\* finished and left rows in the store, every span once.
C24_Witness ==
  /\ AllFinished
  /\ watcherOn
  /\ edits > 0
  /\ Len(embeddings) >= 2
  /\ ~DuplicateRows(embeddings)

\* C24 where no watch handler has run: the rows written by indexAll runs alone
\* never repeat a span.
C24_RunsAloneNoDuplicates == ~watcherOn => ~DuplicateRows(embeddings)

\* C25: when a non-force indexAll run in which no embedding failed completes
\* (cache.save() resolved) and no watch handler is installed, then for every
\* file its last batch found changed and that still has the content the run
\* read, the store holds exactly the chunks of that content and the stored hash
\* is the hash of that content.
C25_StoreMatchesContent ==
  [][ \A c \in Calls :
        (/\ pc[c] = "save" /\ pc'[c] = "done"
         /\ ~run[c].force
         /\ run[c].failed = {}
         /\ ~watcherOn) =>
           \A n \in 1..Len(run[c].fileHashes) :
             LET file == run[c].fileHashes[n][1]
                 hash == run[c].fileHashes[n][2]
             IN  (disk[file].state = "ok" /\ hashContent(disk[file].content) = hash) =>
                    /\ RowsOfFile(embeddings', file) =
                         RowsOfChunks(file, smartChunk(disk[file].content))
                    /\ fileHashes'[file] = hash ]_vars

\* After an edit a non-force run without failed embeddings has completed, and
\* a file it found changed has the chunks and the hash of its content.
C25_Witness ==
  \E c \in Calls :
    /\ pc[c] = "done"
    /\ ~run[c].force
    /\ run[c].failed = {}
    /\ ~watcherOn
    /\ edits > 0
    /\ \E f \in run[c].chunked :
         /\ disk[f].state = "ok"
         /\ fileHashes[f] = hashContent(disk[f].content)
         /\ RowsOfFile(embeddings, f) # <<>>
         /\ RowsOfFile(embeddings, f) = RowsOfChunks(f, smartChunk(disk[f].content))

\* C26: the hash of a file is stored only if every chunk of the file was
\* embedded and stored: when a run writes a batch while no watch handler
\* runs, a file of the batch with a failed chunk embedding does not get the
\* hash of the content that was read, so that a later non-force run does not
\* take it as unchanged.
C26_HashOnlyIfAllEmbedded ==
  [][ \A c \in Calls :
        (pc[c] = "embed" /\ pc'[c] # "embed" /\ WatcherQuiet) =>
           \A n \in 1..Len(run[c].fileHashes) :
             LET file == run[c].fileHashes[n][1]
                 hash == run[c].fileHashes[n][2]
             IN  (\E key \in run'[c].failed : key[1] = file) =>
                    ~Unchanged(getFileHash(fileHashes', file), hash) ]_vars

\* A run has written a batch in which the embedding of a chunk failed: the
\* chunk is not in the store, the other chunk of the file is.
C26_Witness ==
  \E c \in Calls :
    /\ pc[c] \in {"save", "done"}
    /\ WatcherQuiet
    /\ \E key \in run[c].failed :
         /\ \E x \in run[c].written : x.file = key[1]
         /\ \A m \in 1..Len(embeddings) : KeyOf(embeddings[m]) # key

\* How often a chunk occurs in a list of chunks.
Occurrences(chunks, chunk) == Cardinality({n \in 1..Len(chunks) : chunks[n] = chunk})

\* How often a chunk was posted to a worker.
Posted(chunk) ==
  Cardinality({<<n, m>> \in (1..Len(wkSlices)) \X (1..MaxChunks) :
                 m <= Len(wkSlices[n].chunks) /\ wkSlices[n].chunks[m] = chunk})

\* The results a chunk has got from the workers or from the fallback.
ResultsBy(chunk, by) ==
  {n \in 1..Len(wkResults) : wkResults[n].chunk = chunk /\ wkResults[n].by = by}

\* C27: within one call a chunk is posted to at most one worker, once, and is
\* handed to processChunksSingleThreaded at most once; it gets at most one
\* result from a worker and at most one from the fallback, and when its
\* fallback embedding has failed the call returns that one result, with
\* success = false and an error, and no further result for the chunk.
C27_EmbeddedAtMostOnceEach ==
  \A chunk \in Range(wkChunks) :
    /\ Posted(chunk) <= 1
    /\ Occurrences(wkFailed.chunks, chunk) <= 1
    /\ Cardinality(ResultsBy(chunk, "worker")) <= 1
    /\ Cardinality(ResultsBy(chunk, "fallback")) <= 1
    /\ \A n \in ResultsBy(chunk, "fallback") :
         ~wkResults[n].success =>
           /\ wkResults[n].error
           /\ ResultsBy(chunk, "worker") = {}
           /\ wkPc = "returned" =>
                \A m \in 1..Len(wkResults) : wkResults[m].chunk = chunk => m = n

\* The call returned; a slice had timed out, a chunk of it failed again in the
\* fallback and is returned as failed, and another slice was embedded by its
\* worker.
C27_Witness ==
  /\ wkPc = "returned"
  /\ \E n, m \in 1..Len(wkSlices) :
       /\ wkSlices[n].how = "timeout"
       /\ wkSlices[m].how = "results"
       /\ \E k \in 1..Len(wkResults) :
            /\ wkResults[k].chunk \in Range(wkSlices[n].chunks)
            /\ wkResults[k].by = "fallback"
            /\ ~wkResults[k].success
            /\ wkResults[k].error

\* C28: after a batch has timed out, a message of that batch arriving later
\* is discarded: the promise of the batch stays resolved with the empty
\* array, and no other batch posted to the worker is resolved with it.
C28_LateResultDiscarded ==
  \A b \in 1..Len(btBatches) :
    btBatches[b].settled = "timeout" =>
      /\ btBatches[b].from = 0
      /\ \A c \in 1..Len(btBatches) : btBatches[c].from # b

\* The first batch timed out, its message came while the handler of the next
\* batch was listening, and the next batch was resolved with its own results.
C28_Witness ==
  /\ Len(btBatches) = 2
  /\ btBatches[1].settled = "timeout"
  /\ btBatches[1].late = "listening"
  /\ btBatches[2].settled = "results"
  /\ btBatches[2].from = 2

\* A posted batch whose promise is pending.
PendingBatch(b) == b \in 1..Len(btBatches) /\ btBatches[b].settled = "pending"

\* C29: every batch posted to a worker eventually resolves, with results or
\* as failed after an error, a crash or the timeout, whatever messages the
\* worker sends or fails to send.
C29_BatchResolves ==
  \A b \in 1..MaxBatches : PendingBatch(b) ~> ~PendingBatch(b)

\* A batch was resolved by its timeout, the worker having sent nothing for it.
C29_Witness ==
  \E b \in 1..Len(btBatches) :
    /\ btBatches[b].settled = "timeout"
    /\ btSent = 0
    /\ ~btCrashed

\* C29, while the handler or the timeout of the batch is still in place: a
\* pending batch resolves or loses both.
C29_ResolvesOrDropped ==
  \A b \in 1..MaxBatches :
    PendingBatch(b) ~>
      (~PendingBatch(b) \/ (~btBatches[b].timer /\ ~btBatches[b].listening))

InChunkerOrder(results) ==
  \A m, n \in 1..Len(results) :
    (m < n /\ results[m].success /\ results[n].success) =>
       results[m].chunk < results[n].chunk

\* C31: the chunks of a file are inserted in ascending startLine order, as the
\* chunker produced them, for every outcome of the worker slices: the results
\* processChunksWithWorkers returns, which indexAll inserts in their order,
\* follow the order of the chunks given to the call.
C31_InsertedInChunkerOrder == wkPc = "returned" => InChunkerOrder(wkResults)

\* The call returned with two slices, each embedded by its worker, and the
\* results in the order of the chunks.
C31_Witness ==
  /\ wkPc = "returned"
  /\ Len(wkSlices) = 2
  /\ \A n \in 1..Len(wkSlices) : wkSlices[n].how = "results"
  /\ Len(wkResults) >= 3
  /\ \A n \in 1..Len(wkResults) : wkResults[n].success
  /\ InChunkerOrder(wkResults)

\* C31 when no slice was recomputed by the fallback: the order is kept.
C31_OrderWithoutFallback ==
  (wkPc = "returned" /\ \A n \in 1..Len(wkSlices) : wkSlices[n].how = "results") =>
     InChunkerOrder(wkResults)

\* The count the three limits give: a configured request, 'auto' requesting
\* the budget, the budget of the throttle and the cores of the host; a
\* count of one or less is the single-threaded mode, with no worker.
ResolvedCount(config, cpuCount) ==
  LET budget  == maxWorkers(config, cpuCount)
      request == IF config.workerThreads.auto THEN budget ELSE config.workerThreads.n
      least   == Min(request, Min(budget, cpuCount))
  IN  IF least <= 1 THEN 0 ELSE least

C33_PoolEmptyBetweenRuns ==
  /\ plPc = "idle" => plWorkers = 0
  /\ plWorkers <= ResolvedCount(plConfig, plCpus)

\* A run that ended after its batch loop left the pool empty.
C33_Witness ==
  plPc = "idle" /\ plRuns = MaxPoolRuns /\ plWorkers = 0 /\ ~plConfig.nomic
  /\ ResolvedCount(plConfig, plCpus) >= 2

\* The batches of files a run has gone through when its loop has ended.
BatchesOf(r) == (Len(r.files) + batchSize - 1) \div batchSize

\* C34: when the batch loop of a run has ended, the throttle delay has been
\* awaited once for every batch of files, whether or not the batch produced
\* a chunk and whether or not its embeddings succeeded.
C34_DelayAfterEveryBatch ==
  \A c \in Calls : pc[c] = "save" => run[c].throttled = BatchesOf(run[c])

\* A run of two batches, each with chunks and one with a failed embedding,
\* delayed after both.
C34_Witness ==
  \E c \in Calls :
    /\ pc[c] = "save"
    /\ BatchesOf(run[c]) = 2
    /\ run[c].throttled = 2
    /\ run[c].failed # {}

\* The characters of a text that are not whitespace.
RECURSIVE NonWhitespaceLength(_)
NonWhitespaceLength(text) ==
  IF text = <<>> THEN 0
  ELSE (IF IsWhitespace(Head(text)) THEN 0 ELSE CharLen(Head(text)))
       + NonWhitespaceLength(Tail(text))

\* No line of the content makes smartChunk split: the loop ends with every
\* line in currentChunk, and the whole content is the one candidate chunk.
NoSplit(lines) ==
  \A n \in 2..Len(lines) :
    ~ShouldSplit(lines[n], SubSeq(lines, 1, n - 1), SumTokens(SubSeq(lines, 1, n - 1)))

\* C35: a candidate chunk is discarded exactly when its text has fewer than
\* 20 non-whitespace characters, and emitted otherwise; stated for the
\* contents that make one candidate.
C35_DiscardedIffShort ==
  (ckPc = "smart" /\ NoSplit(Split(ckContent))) =>
     (ckSpans = <<>> <=> NonWhitespaceLength(ckContent) < MinChunkChars)

\* A candidate of ten non-whitespace characters discarded, and one of
\* thirty emitted.
C35_Witness ==
  /\ ckPc = "smart"
  /\ NoSplit(Split(ckContent))
  /\ Len(Split(ckContent)) >= 2
  /\ \/ ckSpans = <<>> /\ NonWhitespaceLength(ckContent) = 10
     \/ ckSpans # <<>> /\ NonWhitespaceLength(ckContent) = 30 /\ ckSpans[1].text = ckContent

\* The call of ASTChunker.chunk went through the AST path: every step before
\* the merge succeeded and the semantic nodes gave the chunks walkTree
\* collected.
AstPathChunks ==
  IF ckPc = "ast" /\ ckEnv \notin AstFailures
    THEN walkTree(ckEnv.nodes, Split(ckContent), <<>>)
    ELSE <<>>

\* C36: the spans the AST path of ASTChunker.chunk returns are sorted by
\* ascending startLine and do not overlap: each starts strictly after the
\* endLine of the one before it.
C36_AstSpansSortedDisjoint ==
  Len(AstPathChunks) > 0 =>
    /\ Len(ckSpans) > 0
    /\ \A k \in 1..(Len(ckSpans) - 1) :
         /\ ckSpans[k].startLine < ckSpans[k + 1].startLine
         /\ ckSpans[k].endLine < ckSpans[k + 1].startLine

\* Two nodes split into windows, walked out of the order of their lines and
\* overlapping: the call returned several spans, fewer than it collected.
C36_Witness ==
  /\ Len(AstPathChunks) > Len(ckSpans)
  /\ Len(ckSpans) >= 2
  /\ AstPathChunks # SortByStart(AstPathChunks)

\* C37: every chunk smartChunk emits that has more than one line has an
\* estimated token count of at most targetTokens.
C37_MultiLineWithinBudget ==
  ckPc = "smart" =>
    \A k \in 1..Len(ckSpans) :
      ckSpans[k].endLine > ckSpans[k].startLine =>
        /\ ckSpans[k].tokenCount <= targetTokens
        /\ SumTokens(Split(ckSpans[k].text)) <= targetTokens

\* A content split by the token limit into chunks of several lines, each
\* within the budget.
C37_Witness ==
  /\ ckPc = "smart"
  /\ Len(ckSpans) >= 2
  /\ \A k \in 1..Len(ckSpans) :
       /\ ckSpans[k].endLine > ckSpans[k].startLine
       /\ ckSpans[k].tokenCount <= targetTokens
       /\ ckSpans[k].tokenCount > overlapTokens

\* C38: the chunks smartChunk emits for a content have strictly increasing
\* startLine and strictly increasing endLine, so no two chunks of a file
\* share a start line.
C38_StartLinesIncrease ==
  ckPc = "smart" =>
    \A k \in 1..(Len(ckSpans) - 1) :
      /\ ckSpans[k].startLine < ckSpans[k + 1].startLine
      /\ ckSpans[k].endLine < ckSpans[k + 1].endLine

\* A content of three chunks, each starting and ending after the one before.
C38_Witness ==
  /\ ckPc = "smart"
  /\ Len(ckSpans) >= 3
  /\ \A k \in 1..(Len(ckSpans) - 1) :
       /\ ckSpans[k].startLine < ckSpans[k + 1].startLine
       /\ ckSpans[k].endLine < ckSpans[k + 1].endLine

\* C39: for every interleaving of concurrent tool calls and the auto-index
\* timer the initialization body is started at most once, and a tool handler
\* is invoked only after the initialization has completed successfully.
C39_InitializedOnceBeforeHandlers ==
  /\ inStarted <= 1
  /\ \A c \in InitCallers :
       inPc[c] \in {"handler", "done"} =>
         (isInitialized /\ inBody = "done" /\ initializationPromise = "fulfilled")

\* A tool call is in its handler while another, which arrived during the
\* initialization was in progress, has not resumed yet; the timer runs indexAll.
C39_Witness ==
  /\ inStarted = 1
  /\ inPc[AutoIndexTimer] = "handler"
  /\ \E c, d \in 1..MaxToolCalls :
       /\ inPc[c] = "handler"
       /\ inPc[d] = "awaiting"

\* C40: in every state the indexing status has 0 <= processedFiles <=
\* totalFiles and 0 <= percentage <= 100, and within a run of indexAll (every
\* step but the start of a run, which resets the status) the percentage
\* never decreases.
C40_ProgressConsistent ==
  /\ [](/\ 0 <= indexingStatus.processedFiles
        /\ indexingStatus.processedFiles <= indexingStatus.totalFiles
        /\ 0 <= indexingStatus.percentage
        /\ indexingStatus.percentage <= 100)
  /\ [][calls' = calls => indexingStatus'.percentage >= indexingStatus.percentage]_vars

\* A run in progress has processed one of two files to index: 50 percent.
C40_Witness ==
  /\ indexingStatus.inProgress
  /\ indexingStatus.processedFiles = 1
  /\ indexingStatus.totalFiles = 2
  /\ indexingStatus.percentage = 50

====
